---- MODULE Spec2Model ----
(***************************************************************************)
(* Secure P2P chat: Diffie-Hellman key exchange, HMAC message envelopes,   *)
(* the per-peer session registry and the client/server connection          *)
(* lifecycle (security.py, client.py, server.py, peersdb.py, utils.py).    *)
(*                                                                         *)
(* Python values are records tagged by their type in field t:              *)
(*   [t |-> "none"], [t |-> "int", v |-> n], [t |-> "str", v |-> chars],   *)
(*   [t |-> "bytes", v |-> bytes], [t |-> "list", v |-> items],            *)
(*   [t |-> "dict", v |-> sequence of <<key, value>> pairs].               *)
(* A character (and a byte) is a record [c |-> "x"]; the 32-byte SHA-256   *)
(* digests and their 64-character hexadecimal renderings are opaque        *)
(* blocks that carry what was hashed (the hash is collision-free).         *)
(***************************************************************************)
EXTENDS Integers, Sequences, FiniteSets, TLC

(***************************************************************************)
(* Bounds of the model.                                                    *)
(***************************************************************************)
\* DiffieHellman.P: the model's modulus stands for the 2048-bit MODP prime.
P == 5
\* Longest chat message, in characters.
MaxMsgLen == 2
\* TLS connections opened in one run, by the nodes and by the foreign peer.
MaxLinks == 3
\* Commands typed in one run, on all nodes together.
MaxCommands == 1
\* Payloads in flight in one direction of a connection.
MaxQueue == 3
\* Connections the foreign peer opens in one run.
MaxForeign == 1
\* Connections whose transport fails in one run.
MaxBreaks == 1
\* Largest private exponent drawn in a handshake of a run.
MaxDrawn == 2
\* Method calls made on the PeersDatabase in one run, by all threads.
MaxCalls == 3
\* Direct reads of peersdb.peers in one run.
MaxReads == 1
\* Calls made on the SecureConnectionManager in one run, by all threads.
MaxManagerCalls == 3
\* Connections the Client under test holds when the calls begin.
MaxConns == 3
\* Connections dropped by their peers.
MaxResets == 1

(***************************************************************************)
(* Python values.                                                          *)
(***************************************************************************)
PNone == [t |-> "none"]
PInt(n) == [t |-> "int", v |-> n]
PStr(s) == [t |-> "str", v |-> s]
PBytes(b) == [t |-> "bytes", v |-> b]
PList(items) == [t |-> "list", v |-> items]
PDict(pairs) == [t |-> "dict", v |-> pairs]
PBool(b) == [t |-> "bool", v |-> b]
PTuple(items) == [t |-> "tuple", v |-> items]

\* F(v), with v evaluated once whatever the number of its uses in F.
With(v, F(_)) == CHOOSE y \in {F(x) : x \in {v}} : TRUE

Ch(s) == [c |-> s]
Lit(seq) == [i \in DOMAIN seq |-> Ch(seq[i])]

\* What a call did: the exception it raised ("None" when it returned) and
\* the value it returned.
Return(v) == [exc |-> "None", ret |-> v]
Raise(e) == [exc |-> e, ret |-> PNone]

DigitChars == <<"0", "1", "2", "3", "4", "5", "6", "7", "8", "9">>

RECURSIVE DecStr(_)
\* str(n) of a non-negative int: its decimal digits.
DecStr(n) ==
    IF n < 10 THEN <<Ch(DigitChars[n + 1])>>
    ELSE DecStr(n \div 10) \o <<Ch(DigitChars[(n % 10) + 1])>>

\* str.encode('utf-8') of one character: ASCII is one byte, U+00E9 is two.
Utf8Char(ch) ==
    IF ch.c = "U+00E9" THEN <<Ch("C3"), Ch("A9")>> ELSE <<ch>>

RECURSIVE Flatten(_)
\* The concatenation of the sequences of ss.
Flatten(ss) ==
    With(ss, LAMBDA v :
        IF Len(v) = 0 THEN <<>>
        ELSE IF Len(v) = 1 THEN v[1]
        ELSE Flatten(SubSeq(v, 1, Len(v) \div 2))
                 \o Flatten(SubSeq(v, (Len(v) \div 2) + 1, Len(v))))

\* str.encode('utf-8')
Utf8Encode(s) == Flatten([i \in DOMAIN s |-> Utf8Char(s[i])])

\* bytes.decode('utf-8'): [ok, v]; a lead byte without its continuation
\* byte, or a continuation byte alone, is a UnicodeDecodeError.
Utf8Decode(bytes) ==
    With(bytes, LAMBDA b :
        IF \E i \in DOMAIN b :
              \/ b[i].c = "C3" /\ (i = Len(b) \/ b[i + 1].c # "A9")
              \/ b[i].c = "A9" /\ (i = 1 \/ b[i - 1].c # "C3")
        THEN [ok |-> FALSE, v |-> <<>>]
        ELSE [ok |-> TRUE,
              v |-> With(SelectSeq(b, LAMBDA x : x.c # "A9"), LAMBDA lead :
                        [i \in DOMAIN lead |->
                            IF lead[i].c = "C3" THEN Ch("U+00E9") ELSE lead[i]])])

\* hashlib.sha256(data).digest(): one opaque 32-byte block.
Sha256(data) == <<[c |-> "sha256", d |-> data]>>

\* hmac.new(key, data, hashlib.sha256).hexdigest(): one opaque block of 64
\* lower-case hexadecimal characters.
HmacSha256Hex(key, data) == <<[c |-> "hex64", key |-> key, d |-> data]>>

(***************************************************************************)
(* security.py: DiffieHellman                                              *)
(***************************************************************************)
G == 2

RECURSIVE Pow(_, _, _)
\* pow(b, e, m)
Pow(b, e, m) == IF e = 0 THEN 1 % m ELSE (b * Pow(b, e - 1, m)) % m

\* The private exponents secrets.randbelow(P - 2) + 1 can draw.
PrivateKeys == 1 .. (P - 2)
\* The exponents drawn in the handshakes of a run.
Drawn == {x \in PrivateKeys : x <= MaxDrawn}

\* DiffieHellman.__init__ with the drawn private exponent.
NewDiffieHellman(priv) ==
    [private_key |-> priv, public_key |-> Pow(G, priv, P), shared_secret |-> PNone]

\* The derived 32-byte key both compute_shared_secret and get_shared_secret
\* return: sha256(str(shared_secret).encode()).digest().
DeriveKey(secret) == Sha256(Utf8Encode(DecStr(secret)))

ComputeSharedSecretMutPublic(dh, peer_public_key) ==
    LET s == Pow(peer_public_key, dh.public_key, P)
    IN  [dh |-> [dh EXCEPT !.shared_secret = PInt(s)], key |-> DeriveKey(s)]

\* DiffieHellman.compute_shared_secret: the instance afterwards and the key
\* returned.
ComputeSharedSecret(dh, peer_public_key) ==
    LET s == Pow(peer_public_key, dh.private_key, P)
    IN  [dh |-> [dh EXCEPT !.shared_secret = PInt(s)], key |-> DeriveKey(s)]

\* A get_shared_secret without the test of line 55.
GetSharedSecretMutNoTest(dh) ==
    Return(PBytes(DeriveKey(IF dh.shared_secret = PNone THEN 0 ELSE dh.shared_secret.v)))

\* DiffieHellman.get_shared_secret
GetSharedSecret(dh) ==
    IF dh.shared_secret = PNone THEN Raise("Exception")
    ELSE Return(PBytes(DeriveKey(dh.shared_secret.v)))

(***************************************************************************)
(* The json module, for the values the program exchanges: null, integers,  *)
(* strings, arrays and objects. A text is a sequence of characters.        *)
(***************************************************************************)
JsonEscapeCharMutRaw(ch) == <<ch>>

\* json.dumps of one character of a string (ensure_ascii=True).
JsonEscapeChar(ch) ==
    IF ch.c = "\"" THEN Lit(<<"\\", "\"">>)
    ELSE IF ch.c = "\\" THEN Lit(<<"\\", "\\">>)
    ELSE IF ch.c = "U+00E9" THEN Lit(<<"\\", "u", "0", "0", "e", "9">>)
    ELSE <<ch>>

JsonEscape(s) == Flatten([i \in DOMAIN s |-> JsonEscapeChar(s[i])])

RECURSIVE JsonDumps(_)
RECURSIVE JsonDumpsItems(_)
RECURSIVE JsonDumpsPairs(_)
\* json.dumps(value), default separators ", " and ": ".
JsonDumps(val) ==
    IF val.t = "none" THEN Lit(<<"n", "u", "l", "l">>)
    ELSE IF val.t = "int" THEN DecStr(val.v)
    ELSE IF val.t = "str" THEN <<Ch("\"")>> \o JsonEscape(val.v) \o <<Ch("\"")>>
    ELSE IF val.t = "list" THEN <<Ch("[")>> \o JsonDumpsItems(val.v) \o <<Ch("]")>>
    ELSE <<Ch("{")>> \o JsonDumpsPairs(val.v) \o <<Ch("}")>>

JsonDumpsItems(items) ==
    IF items = <<>> THEN <<>>
    ELSE IF Len(items) = 1 THEN JsonDumps(items[1])
    ELSE JsonDumps(items[1]) \o Lit(<<",", " ">>) \o JsonDumpsItems(Tail(items))

JsonDumpsPairs(pairs) ==
    IF pairs = <<>> THEN <<>>
    ELSE LET one == JsonDumps(PStr(pairs[1][1])) \o Lit(<<":", " ">>)
                    \o JsonDumps(pairs[1][2])
         IN  IF Len(pairs) = 1 THEN one
             ELSE one \o Lit(<<",", " ">>) \o JsonDumpsPairs(Tail(pairs))

ParseFail == [ok |-> FALSE, val |-> PNone, next |-> 0]
\* A value parsed, next the index of the character after it.
ParseOk(v, next) == [ok |-> TRUE, val |-> v, next |-> next]

IsDigit(ch) == \E i \in 1 .. 10 : DigitChars[i] = ch.c
DigitVal(ch) == (CHOOSE i \in 1 .. 10 : DigitChars[i] = ch.c) - 1
IsHexDigit(ch) ==
    IsDigit(ch) \/ ch.c \in {"a", "b", "c", "d", "e", "f", "A", "B", "C", "D", "E", "F"}

\* The index of the first character of t at or after i that is no blank,
\* Len(t) + 1 when there is none.
SkipWs(t, i) ==
    CHOOSE j \in i .. (Len(t) + 1) :
        /\ \A x \in i .. (j - 1) : t[x].c = " "
        /\ j = Len(t) + 1 \/ t[j].c # " "

\* The number of consecutive backslashes that end just before index j of a
\* string body that starts at lo.
BackslashesBefore(t, lo, j) ==
    CHOOSE n \in 0 .. (j - lo) :
        /\ \A x \in (j - n) .. (j - 1) : t[x].c = "\\"
        /\ n = j - lo \/ t[j - n - 1].c # "\\"

\* t[p] opens an escape sequence.
EscapeAt(t, lo, p) == t[p].c = "\\" /\ BackslashesBefore(t, lo, p) % 2 = 0

\* The length of the escape sequence that opens at p in a body that ends at
\* hi: \" and \\ are 2 long, \uXXXX is 6 long; 0 when it is none of them.
EscapeLen(t, p, hi) ==
    IF p + 1 > hi THEN 0
    ELSE IF t[p + 1].c = "\"" \/ t[p + 1].c = "\\" THEN 2
    ELSE IF t[p + 1].c = "u" /\ p + 5 <= hi /\ \A x \in (p + 2) .. (p + 5) : IsHexDigit(t[x])
    THEN 6
    ELSE 0

\* The character the escape sequence at p stands for.
EscapeChar(t, p) ==
    IF t[p + 1].c # "u" THEN t[p + 1]
    ELSE IF SubSeq(t, p + 2, p + 5) = Lit(<<"0", "0", "e", "9">>) THEN Ch("U+00E9")
    ELSE [c |-> "U+", hex |-> SubSeq(t, p + 2, p + 5)]

\* The index of the quote that closes the string whose body starts at lo,
\* 0 when there is none.
StringEnd(t, lo) ==
    With({j \in lo .. Len(t) : t[j].c = "\"" /\ BackslashesBefore(t, lo, j) % 2 = 0},
         LAMBDA ends :
            IF ends = {} THEN 0 ELSE CHOOSE j \in ends : \A x \in ends : j <= x)

\* A JSON string, lo the index after its opening quote.
ParseString(t, lo) ==
    With(StringEnd(t, lo), LAMBDA j :
        IF j = 0 THEN ParseFail
        ELSE IF \E p \in lo .. (j - 1) : EscapeAt(t, lo, p) /\ EscapeLen(t, p, j - 1) = 0
        THEN ParseFail
        ELSE With(SelectSeq([x \in 1 .. (j - lo) |-> lo + x - 1],
                            LAMBDA p : ~\E q \in lo .. (p - 1) :
                                /\ EscapeAt(t, lo, q)
                                /\ q + EscapeLen(t, q, j - 1) > p),
                  LAMBDA at :
                ParseOk(PStr([x \in DOMAIN at |->
                                 IF EscapeAt(t, lo, at[x]) THEN EscapeChar(t, at[x])
                                 ELSE t[at[x]]]),
                        j + 1)))

\* The index after the digits that start at i.
DigitsEnd(t, i) ==
    CHOOSE j \in i .. (Len(t) + 1) :
        /\ \A x \in i .. (j - 1) : IsDigit(t[x])
        /\ j = Len(t) + 1 \/ ~IsDigit(t[j])

RECURSIVE DigitsValue(_, _, _)
\* The number the digits t[i .. j - 1] write.
DigitsValue(t, i, j) ==
    IF j <= i THEN 0 ELSE DigitsValue(t, i, j - 1) * 10 + DigitVal(t[j - 1])

RECURSIVE ParseValue(_, _)
RECURSIVE ParseElements(_, _, _)
RECURSIVE ParseMember(_, _)
RECURSIVE ParseMembers(_, _, _)
\* The JSON value that starts at index i of t.
ParseValue(t, i) ==
    IF i > Len(t) THEN ParseFail
    ELSE IF t[i].c = "\"" THEN ParseString(t, i + 1)
    ELSE IF t[i].c = "0" THEN ParseOk(PInt(0), i + 1)
    ELSE IF IsDigit(t[i])
    THEN ParseOk(PInt(DigitsValue(t, i, DigitsEnd(t, i))), DigitsEnd(t, i))
    ELSE IF i + 3 <= Len(t) /\ SubSeq(t, i, i + 3) = Lit(<<"n", "u", "l", "l">>)
    THEN ParseOk(PNone, i + 4)
    ELSE IF t[i].c = "["
    THEN IF SkipWs(t, i + 1) <= Len(t) /\ t[SkipWs(t, i + 1)].c = "]"
         THEN ParseOk(PList(<<>>), SkipWs(t, i + 1) + 1)
         ELSE ParseElements(t, SkipWs(t, i + 1), <<>>)
    ELSE IF t[i].c = "{"
    THEN IF SkipWs(t, i + 1) <= Len(t) /\ t[SkipWs(t, i + 1)].c = "}"
         THEN ParseOk(PDict(<<>>), SkipWs(t, i + 1) + 1)
         ELSE ParseMembers(t, SkipWs(t, i + 1), <<>>)
    ELSE ParseFail

\* The elements of an array, i the index of the first character of one.
ParseElements(t, i, acc) ==
    With(ParseValue(t, i), LAMBDA r :
        IF ~r.ok \/ SkipWs(t, r.next) > Len(t) THEN ParseFail
        ELSE IF t[SkipWs(t, r.next)].c = "]"
        THEN ParseOk(PList(Append(acc, r.val)), SkipWs(t, r.next) + 1)
        ELSE IF t[SkipWs(t, r.next)].c = ","
        THEN ParseElements(t, SkipWs(t, SkipWs(t, r.next) + 1), Append(acc, r.val))
        ELSE ParseFail)

\* One member of an object, i the index of the opening quote of its key:
\* the key and the value, next the index of the first character after the
\* value that is no blank.
ParseMember(t, i) ==
    IF i > Len(t) \/ t[i].c # "\"" THEN [ok |-> FALSE, pair |-> <<>>, next |-> 0]
    ELSE With(ParseString(t, i + 1), LAMBDA k :
        IF ~k.ok \/ SkipWs(t, k.next) > Len(t) \/ t[SkipWs(t, k.next)].c # ":"
        THEN [ok |-> FALSE, pair |-> <<>>, next |-> 0]
        ELSE With(ParseValue(t, SkipWs(t, SkipWs(t, k.next) + 1)), LAMBDA r :
            IF ~r.ok \/ SkipWs(t, r.next) > Len(t)
            THEN [ok |-> FALSE, pair |-> <<>>, next |-> 0]
            ELSE [ok |-> TRUE, pair |-> <<k.val.v, r.val>>,
                  next |-> SkipWs(t, r.next)]))

\* The members of an object, i the index of the opening quote of a key.
ParseMembers(t, i, acc) ==
    With(ParseMember(t, i), LAMBDA m :
        IF ~m.ok THEN ParseFail
        ELSE IF t[m.next].c = "}" THEN ParseOk(PDict(Append(acc, m.pair)), m.next + 1)
        ELSE IF t[m.next].c = ","
        THEN ParseMembers(t, SkipWs(t, m.next + 1), Append(acc, m.pair))
        ELSE ParseFail)

\* json.loads(text): the value, or JSONDecodeError.
JsonLoads(text) ==
    With(text, LAMBDA t :
    With(ParseValue(t, SkipWs(t, 1)), LAMBDA r :
        IF r.ok /\ SkipWs(t, r.next) = Len(t) + 1 THEN Return(r.val)
        ELSE Raise("JSONDecodeError")))

\* key in d, for a dict d.
DictHas(d, key) == \E i \in DOMAIN d.v : d.v[i][1] = key
\* d[key] for a key of d: the value of its last occurrence in the text.
DictGet(d, key) ==
    d.v[CHOOSE i \in DOMAIN d.v :
            /\ d.v[i][1] = key
            /\ \A j \in DOMAIN d.v : d.v[j][1] = key => j <= i][2]

\* data[key] as Python evaluates it for a str key: the item of a dict,
\* KeyError when the dict has no such key, TypeError on any other value.
Subscript(data, key) ==
    IF data.t # "dict" THEN Raise("TypeError")
    ELSE IF ~DictHas(data, key) THEN Raise("KeyError")
    ELSE Return(DictGet(data, key))

(***************************************************************************)
(* security.py: MessageSecurity                                            *)
(***************************************************************************)
\* MessageSecurity.create_hmac: message.encode raises AttributeError when
\* the message is not a str.
CreateHmac(shared_key, message) ==
    IF message.t # "str" THEN Raise("AttributeError")
    ELSE Return(PStr(HmacSha256Hex(shared_key, Utf8Encode(message.v))))

IsAscii(s) == \A i \in DOMAIN s : s[i].c \notin {"U+00E9", "U+"}

\* hmac.compare_digest(a, b) for a str a: TypeError unless b is a str too and
\* both are ASCII; otherwise whether they are equal.
CompareDigest(a, b) ==
    IF a.t # "str" \/ b.t # "str" THEN Raise("TypeError")
    ELSE IF ~IsAscii(a.v) \/ ~IsAscii(b.v) THEN Raise("TypeError")
    ELSE Return(PBool(a.v = b.v))

VerifyHmacMutLength(shared_key, message, received_hmac) ==
    With(CreateHmac(shared_key, message), LAMBDA expected_hmac :
        IF expected_hmac.exc # "None" THEN expected_hmac
        ELSE IF received_hmac.t # "str" THEN Raise("TypeError")
        ELSE Return(PBool(Len(expected_hmac.ret.v) = Len(received_hmac.v))))

VerifyHmacMutReject(shared_key, message, received_hmac) ==
    With(CreateHmac(shared_key, message), LAMBDA expected_hmac :
        IF expected_hmac.exc # "None" THEN expected_hmac
        ELSE Return(PBool(FALSE)))

\* MessageSecurity.verify_hmac
VerifyHmac(shared_key, message, received_hmac) ==
    With(CreateHmac(shared_key, message), LAMBDA expected_hmac :
        IF expected_hmac.exc # "None" THEN expected_hmac
        ELSE CompareDigest(expected_hmac.ret, received_hmac))

MsgField == Lit(<<"m", "s", "g">>)
HmacField == Lit(<<"h", "m", "a", "c">>)

\* MessageSecurity.package_message
PackageMessage(shared_key, message) ==
    With(CreateHmac(shared_key, message), LAMBDA mac :
        IF mac.exc # "None" THEN mac
        ELSE Return(PStr(JsonDumps(PDict(<<<<MsgField, message>>,
                                           <<HmacField, mac.ret>>>>)))))

\* The exceptions unpackage_message catches.
UnpackageCatches(exc) == exc \in {"JSONDecodeError", "KeyError"}

\* MessageSecurity.unpackage_message: the body of its try block.
UnpackageBody(shared_key, package) ==
    With(JsonLoads(package.v), LAMBDA data :
        IF data.exc # "None" THEN data
        ELSE With(Subscript(data.ret, MsgField), LAMBDA message :
             IF message.exc # "None" THEN message
             ELSE With(Subscript(data.ret, HmacField), LAMBDA received_hmac :
                  IF received_hmac.exc # "None" THEN received_hmac
                  ELSE With(VerifyHmac(shared_key, message.ret, received_hmac.ret),
                            LAMBDA is_valid :
                       IF is_valid.exc # "None" THEN is_valid
                       ELSE Return(PTuple(<<message.ret, is_valid.ret>>))))))

\* MessageSecurity.unpackage_message
UnpackageMessage(shared_key, package) ==
    With(UnpackageBody(shared_key, package), LAMBDA r :
        IF r.exc # "None" /\ UnpackageCatches(r.exc)
        THEN Return(PTuple(<<PNone, PBool(FALSE)>>))
        ELSE r)

(***************************************************************************)
(* security.py: SecureConnectionManager. A manager is the pair of dicts    *)
(* [peer_keys, peer_dh]; a key of either is any hashable Python value.     *)
(***************************************************************************)
EmptyDict == [k \in {} |-> PNone]
Put(f, k, v) == [x \in (DOMAIN f) \cup {k} |-> IF x = k THEN v ELSE f[x]]
Pop(f, k) == [x \in (DOMAIN f) \ {k} |-> f[x]]

\* MessageSecurity(shared_key)
MessageSecurity(shared_key) == [t |-> "MessageSecurity", shared_key |-> shared_key]

\* SecureConnectionManager.__init__
NewManager == [peer_keys |-> EmptyDict, peer_dh |-> EmptyDict]

\* An initiate_key_exchange that hands out the private exponent.
InitiateKeyExchangeMutPrivate(m, peer_addr, priv) ==
    [m |-> [m EXCEPT !.peer_dh = Put(m.peer_dh, peer_addr, NewDiffieHellman(priv))],
     ret |-> NewDiffieHellman(priv).private_key]

\* SecureConnectionManager.initiate_key_exchange, priv the exponent the new
\* DiffieHellman draws: the manager afterwards and the public key returned.
InitiateKeyExchange(m, peer_addr, priv) ==
    LET dh == NewDiffieHellman(priv)
    IN  [m |-> [m EXCEPT !.peer_dh = Put(m.peer_dh, peer_addr, dh)],
         ret |-> dh.public_key]

\* SecureConnectionManager.complete_key_exchange, priv the exponent drawn if
\* a DiffieHellman has to be created: the manager afterwards and the
\* exception raised (pow raises TypeError on a public key that is no int,
\* after the DiffieHellman was stored and before any key is).
CompleteKeyExchange(m, peer_addr, peer_public_key, priv) ==
    LET dh0 == IF peer_addr \in DOMAIN m.peer_dh THEN m.peer_dh[peer_addr]
               ELSE NewDiffieHellman(priv)
        m0  == [m EXCEPT !.peer_dh = Put(m.peer_dh, peer_addr, dh0)]
    IN  IF peer_public_key.t # "int" THEN [m |-> m0, exc |-> "TypeError"]
        ELSE LET r == ComputeSharedSecret(dh0, peer_public_key.v)
             IN  [m |-> [peer_dh |-> Put(m.peer_dh, peer_addr, r.dh),
                         peer_keys |-> Put(m.peer_keys, peer_addr, MessageSecurity(r.key))],
                  exc |-> "None"]

\* SecureConnectionManager.get_security: dict.get, None for a missing key.
GetSecurity(m, peer_addr) ==
    IF peer_addr \in DOMAIN m.peer_keys THEN m.peer_keys[peer_addr] ELSE PNone

\* SecureConnectionManager.has_secure_connection
HasSecureConnection(m, peer_addr) == peer_addr \in DOMAIN m.peer_keys

\* A remove_peer that pops peer_dh only.
RemovePeerMutDhOnly(m, peer_addr) ==
    [peer_keys |-> m.peer_keys, peer_dh |-> Pop(m.peer_dh, peer_addr)]

\* A remove_peer that empties both dicts.
RemovePeerMutClear(m, peer_addr) == NewManager

\* SecureConnectionManager.remove_peer
RemovePeer(m, peer_addr) ==
    [peer_keys |-> Pop(m.peer_keys, peer_addr), peer_dh |-> Pop(m.peer_dh, peer_addr)]

(***************************************************************************)
(* utils.py: addresses. An address is the tuple <<ip, port>>; its string   *)
(* "ip:port" is one opaque block of characters.                            *)
(***************************************************************************)
\* tuple_to_socket
TupleToSocket(addr) == PStr(<<[c |-> "addr", ip |-> addr[1], port |-> addr[2]]>>)

\* socket_to_tuple: s.split(':') of a string without a colon has no second
\* item (IndexError).
SocketToTuple(s) ==
    IF Len(s.v) = 1 /\ s.v[1].c = "addr"
    THEN [exc |-> "None", ret |-> <<s.v[1].ip, s.v[1].port>>]
    ELSE [exc |-> "IndexError", ret |-> <<>>]

RECURSIVE JoinPeers(_, _)
\* peers_to_str, with the peers in the order the set is iterated.
JoinPeers(r, peers) ==
    IF peers = <<>> THEN r
    ELSE JoinPeers(r \o <<Ch(" ")>> \o Head(peers).v, Tail(peers))

\* str.split(): the whitespace-separated tokens of a text.
SplitWs(text) ==
    With(text, LAMBDA t :
    With(SelectSeq([x \in 1 .. Len(t) |-> x],
                   LAMBDA p : t[p].c # " " /\ (p = 1 \/ t[p - 1].c = " ")),
         LAMBDA starts :
            [x \in DOMAIN starts |->
                PStr(SubSeq(t, starts[x],
                     CHOOSE q \in starts[x] .. Len(t) :
                         /\ \A y \in starts[x] .. q : t[y].c # " "
                         /\ q = Len(t) \/ t[q + 1].c = " "))]))

(***************************************************************************)
(* State.                                                                  *)
(***************************************************************************)
VARIABLES
    \* test_security.py, test_diffie_hellman: the two DiffieHellman
    \* instances, the public keys they handed over, the keys
    \* compute_shared_secret returned and what get_shared_secret last did.
    alice_dh, bob_dh, alice_public, bob_public, alice_shared, bob_shared,
    alice_got, bob_got,
    \* test_security.py, test_hmac_integrity: the MessageSecurity under test
    \* and the last call made on it, [op, message, arg, result].
    security, call

testVars == <<alice_dh, bob_dh, alice_public, bob_public, alice_shared, bob_shared,
              alice_got, bob_got, security, call>>

VARIABLES
    \* peersdb.py: the PeersDatabase (its peers set and whether its lock is
    \* held), where each calling thread stands in its method call, the calls
    \* that returned, and the thread that reads the peers attribute itself.
    db, calling, history, reading

peersVars == <<db, calling, history, reading>>

VARIABLES
    \* security.py: the SecureConnectionManager under test, where each
    \* calling thread stands in its call, the calls that returned, and what
    \* the last _handle_key_exchange did.
    secure_manager, mgr_calling, mgr_history, handled

managerVars == <<secure_manager, mgr_calling, mgr_history, handled>>

VARIABLES
    \* client.py: the set of Connections of the Client under test, the sockets
    \* it holds, the peers the manager has a session key for, where each
    \* thread inside send_msg stands and where the thread inside disconnect
    \* stands.
    conn_set, sockets, keyed, sending, disconnecting

clientVars == <<conn_set, sockets, keyed, sending, disconnecting>>

VARIABLES
    \* security.py: a SecureConnectionManager whose methods one thread calls
    \* one after the other, and the last call: the method, its peer_addr,
    \* what it raised and the manager before it.
    registry, reg_call

registryVars == <<registry, reg_call>>

unitVars == <<testVars, peersVars, managerVars, clientVars, registryVars>>

VARIABLES
    \* The TLS connections ever opened, in the order of their creation: for
    \* each the two sockets, the payloads in flight and the receive loop.
    links,
    \* Per node: security.secure_manager, peersdb.peers, the client's
    \* Connections set (of link numbers) and its connection counter.
    manager, peers, connections, concount,
    \* Per node and thread ("main", "accept"): where its Client.connect call
    \* stands.
    connecting,
    \* Per node: where Server.start stands.
    accepting,
    \* Per node: the last command its main loop finished, and the number of
    \* commands typed so far on all nodes.
    returned, ncmds

protoVars == <<links, manager, peers, connections, concount, connecting, accepting,
               returned, ncmds>>

vars == <<unitVars, protoVars, peersVars, managerVars, clientVars, registryVars>>

(***************************************************************************)
(* main.py: the processes of a run and their addresses. Each node runs     *)
(* main.py: a Client, a Server on ListenPort and the command loop. The     *)
(* foreign peer holds a certificate of the same CA and runs other code.    *)
(***************************************************************************)
Nodes == {"A", "B"}
Foreign == "X"

HostIp(h) ==
    IF h = "A" THEN "10.0.0.1" ELSE IF h = "B" THEN "10.0.0.2"
    ELSE IF h = "C" THEN "10.0.0.3" ELSE "10.0.0.9"

\* PORTA, the port typed at start-up (the same on every host).
ListenPort == 5000
\* The port the operating system gives the client socket of link l is
\* EphemeralBase + l.
EphemeralBase == 40000

\* A connect that rejects no address.
LoopbackIpsMutNone == {}
\* The addresses Client.connect rejects, line 71.
LoopbackIps == {"127.0.0.1", "127.0.1.1"}

ListenAddr(h) == <<HostIp(h), ListenPort>>
\* obter_hostname(PORTA) on node n
ObterHostname(n) == TupleToSocket(ListenAddr(n))
\* str(usuario)
Username(h) == PStr(Lit(<<h>>))

Threads == {"main", "accept"}

\* A thread that is not inside Client.connect.
NotConnecting == [pc |-> "none", link |-> 0, arg |-> PNone]
\* A thread inside Client.connect(socket_to_tuple(arg), hostname), blocked
\* at pc on the socket of link l.
Connecting(pc, l, arg) == [pc |-> pc, link |-> l, arg |-> arg]

\* Server.start at pc ("accept", "first_recv", "peers", "peers_connect",
\* "dead"), conn being the server socket of link l, and the tokens of the
\* received peer list still to handle.
Accepting(pc, l, todo) == [pc |-> pc, link |-> l, todo |-> todo]

\* The command the main loop last finished.
Command(op, arg, seq, result) == [op |-> op, arg |-> arg, seq |-> seq, result |-> result]
NoCommand == Command("none", PNone, 0, "none")

\* What handle_peer did with the payload it last received: the text, what it
\* printed and logged as message content, and whether it printed the alert
\* banner and logged the security event.
Rx(data, printed, logged, banner, alert) ==
    [data |-> data, printed |-> printed, logged |-> logged, banner |-> banner,
     alert |-> alert]
NoRx == Rx(PNone, PNone, PNone, FALSE, FALSE)

\* A connection: the host and thread that opened it and the node it leads
\* to; the client's SSLSocket ("handshake", "open", "closed") and the
\* server's ("none", "open", "closed"); whether the transport failed; the
\* payloads in flight; the handle_peer thread ("none", "running", "done",
\* "died"); the session keys the initiator and the responder installed when
\* they completed the handshake over it; what handle_peer did last; the
\* peers the target knew when it accepted the connection.
NewLink(client, thread, target) ==
    [client |-> client, thread |-> thread, target |-> target,
     csock |-> "handshake", ssock |-> "none", broken |-> FALSE,
     c2s |-> <<>>, s2c |-> <<>>, handler |-> "none",
     ikey |-> PNone, rkey |-> PNone, rx |-> NoRx, known |-> {}]

\* conn.getpeername() of the client socket of a link
GetPeerName(k) == ListenAddr(k.target)
\* addr of Server.start's accept() for link l
AcceptedAddr(l, k) == <<HostIp(k.client), EphemeralBase + l>>
\* The SSLSocket conn of link l on the server, as a dict key.
SocketObject(l) == [t |-> "SSLSocket", fileno |-> l]

\* The state after main.py's start-up on every node.
InitNetwork ==
    /\ links = <<>>
    /\ manager = [n \in Nodes |-> NewManager]
    /\ peers = [n \in Nodes |-> {}]
    /\ connections = [n \in Nodes |-> {}]
    /\ concount = [n \in Nodes |-> 0]
    /\ connecting = [n \in Nodes |-> [th \in Threads |-> NotConnecting]]
    /\ accepting = [n \in Nodes |-> Accepting("accept", 0, <<>>)]
    /\ returned = [n \in Nodes |-> NoCommand]
    /\ ncmds = 0

(***************************************************************************)
(* Inputs of the unit-level specifications.                                *)
(***************************************************************************)
\* The characters of chat messages: a letter, the two characters JSON
\* escapes with a backslash, and one non-ASCII character.
MsgAlphabet == {"a", "\"", "\\", "U+00E9"}

\* Every message string of at most MaxMsgLen characters.
Messages ==
    UNION {[1 .. n -> {Ch(x) : x \in MsgAlphabet}] : n \in 0 .. MaxMsgLen}

\* Every session key a handshake can derive.
SessionKeys == {DeriveKey(x) : x \in 0 .. (P - 1)}

\* A call on the MessageSecurity under test: the message and the tag or
\* package passed, where that tag or package comes from ("own": made by
\* create_hmac or package_message under tag_key for tag_message; "raw":
\* written by someone else), and what the call did.
Call(op, message, arg, origin, tag_key, tag_message, result) ==
    [op |-> op, message |-> message, arg |-> arg, origin |-> origin,
     tag_key |-> tag_key, tag_message |-> tag_message, result |-> result]

NoCall == Call("none", PNone, PNone, "raw", <<>>, PNone, Return(PNone))

DhIdle ==
    /\ alice_dh = NewDiffieHellman(1) /\ bob_dh = NewDiffieHellman(1)
    /\ alice_public = PNone /\ bob_public = PNone
    /\ alice_shared = PNone /\ bob_shared = PNone
    /\ alice_got = NoCall.result /\ bob_got = NoCall.result

HmacIdle ==
    /\ security = MessageSecurity(DeriveKey(0))
    /\ call = NoCall

(***************************************************************************)
(* peersdb.py: the PeersDatabase and the threads that use it.              *)
(***************************************************************************)
\* The threads that call the methods of the database.
CallThreads == {"t1", "t2"}
\* The peer addresses passed to add, remove and exists.
PeerAddrs == {"10.0.0.2:5000", "10.0.0.3:5000"}
\* The methods called, with one argument each ("" where it takes none).
MethodCalls ==
    {[op |-> o, arg |-> a] : o \in {"add", "remove", "exists"}, a \in PeerAddrs}
        \cup {[op |-> o, arg |-> ""] : o \in {"count", "get_all"}}

\* What a method returned: None, a bool, an int or a set object; ref tells
\* which set object ("copy": one made for the caller, "live": self.peers).
Result(kind, b, n, s, ref) == [kind |-> kind, b |-> b, n |-> n, s |-> s, ref |-> ref]
RetNone == Result("None", FALSE, 0, {}, "-")
RetBool(b) == Result("bool", b, 0, {}, "-")
RetInt(n) == Result("int", FALSE, n, {}, "-")
RaisedKeyError == Result("KeyError", FALSE, 0, {}, "-")
\* set.copy(): a new set object with the elements s has now.
SetCopy(s) == Result("set", FALSE, 0, s, "copy")

\* PeersDatabase.__init__
NewPeersDatabase == [peers |-> {}, locked |-> FALSE]

\* An acquire that never waits.
LockFreeMutNoLock(d) == TRUE

\* Lock.acquire() returns once the lock is not held.
LockFree(d) == ~d.locked

\* The statement of each method's with block, run on the set s; remove's
\* block is two statements, the test and set.remove, see RemoveTest.
MethodBody(op, arg, s) ==
    CASE op = "add" -> [peers |-> s \cup {arg}, res |-> RetNone]
      [] op = "exists" -> [peers |-> s, res |-> RetBool(arg \in s)]
      [] op = "count" -> [peers |-> s, res |-> RetInt(Cardinality(s))]
      [] op = "get_all" -> [peers |-> s, res |-> SetCopy(s)]
      [] OTHER -> [peers |-> s, res |-> RetNone]

\* remove, line 63: if peer in self.peers
RemoveTest(arg, s) == arg \in s
\* remove, line 64: set.remove raises KeyError for a missing element.
SetRemove(arg, s) ==
    IF arg \in s THEN [peers |-> s \ {arg}, res |-> RetNone]
    ELSE [peers |-> s, res |-> RaisedKeyError]

\* A whole method call run with no other thread in between.
SerialCall(op, arg, s) ==
    IF op = "remove"
    THEN IF RemoveTest(arg, s) THEN SetRemove(arg, s) ELSE [peers |-> s, res |-> RetNone]
    ELSE MethodBody(op, arg, s)

\* A thread outside every method, and one inside a call invoked at inv.
NotCalling == [pc |-> "idle", op |-> "none", arg |-> "", res |-> RetNone, inv |-> 0]
Calling(pc, op, arg, res, inv) ==
    [pc |-> pc, op |-> op, arg |-> arg, res |-> res, inv |-> inv]

\* The thread that reads peersdb.peers directly: what it runs, the size the
\* set iterator was created with, the elements it has yielded, the string
\* peers_to_str built so far, the set when the read began, whether a
\* method held the lock during one of its reads, and the reads made.
Reading(pc, op, used, seen, r, began, held, n) ==
    [pc |-> pc, op |-> op, used |-> used, seen |-> seen, r |-> r, began |-> began,
     held |-> held, n |-> n]
NotReading == Reading("idle", "none", 0, {}, <<>>, {}, FALSE, 0)

PeersIdle ==
    /\ db = NewPeersDatabase
    /\ calling = [t \in CallThreads |-> NotCalling]
    /\ history = [calls |-> <<>>, clock |-> 0]
    /\ reading = NotReading

(***************************************************************************)
(* security.py: the SecureConnectionManager and the threads that call its  *)
(* methods (the accept thread, the receive threads, the command thread).   *)
(***************************************************************************)
\* The peer address the threads work on, and the public values received
\* from that peer.
ManagerPeers == {"192.168.1.100:5001"}
PeerPublicKeys == {Pow(G, x, P) : x \in Drawn}

\* The calls the threads make: the three methods, and _handle_key_exchange
\* of server.py, which calls initiate_key_exchange and then
\* complete_key_exchange. priv is the exponent a DiffieHellman() of the call
\* draws.
ManagerCalls ==
    {[op |-> "initiate_key_exchange", arg |-> a, pub |-> 0, priv |-> x] :
         a \in ManagerPeers, x \in Drawn}
        \cup {[op |-> o, arg |-> a, pub |-> y, priv |-> x] :
                  o \in {"complete_key_exchange", "_handle_key_exchange"},
                  a \in ManagerPeers, y \in PeerPublicKeys, x \in Drawn}
        \cup {[op |-> "remove_peer", arg |-> a, pub |-> 0, priv |-> 0] : a \in ManagerPeers}

\* secure_manager = SecureConnectionManager(): the two dicts, and for each
\* entry of peer_dh the identity of the DiffieHellman object it refers to.
NewSecureManager == [mgr |-> NewManager, ids |-> [k \in {} |-> 0], next |-> 1]

\* self.peer_dh[peer_addr] = DiffieHellman(), lines 141-142 and 152-153.
StoreNewDh(s, peer_addr, priv) ==
    [mgr |-> [s.mgr EXCEPT !.peer_dh = Put(@, peer_addr, NewDiffieHellman(priv))],
     ids |-> Put(s.ids, peer_addr, s.next),
     next |-> s.next + 1]

\* dh.compute_shared_secret(peer_public_key) on the object ref, line 156:
\* the entry of peer_dh shows the new shared_secret when it still refers to
\* that object.
ComputeOnObject(s, peer_addr, ref, peer_public_key) ==
    IF peer_addr \in DOMAIN s.ids /\ s.ids[peer_addr] = ref
    THEN [s EXCEPT !.mgr.peer_dh[peer_addr] =
              ComputeSharedSecret(@, peer_public_key).dh]
    ELSE s

\* self.peer_keys[peer_addr] = MessageSecurity(shared_key), line 159.
InstallKey(s, peer_addr, shared_key) ==
    [s EXCEPT !.mgr.peer_keys = Put(@, peer_addr, MessageSecurity(shared_key))]

\* A remove_peer that leaves peer_keys as it is.
PopKeysMutKeep(s, peer_addr) == s

\* self.peer_keys.pop(peer_addr, None), line 171.
PopKeys(s, peer_addr) == [s EXCEPT !.mgr.peer_keys = Pop(@, peer_addr)]

\* self.peer_dh.pop(peer_addr, None), line 172.
PopDh(s, peer_addr) ==
    [s EXCEPT !.mgr.peer_dh = Pop(@, peer_addr), !.ids = Pop(@, peer_addr)]

\* A thread in a call: the call, the method of the manager it is in and the
\* line it stands at, when that method was invoked, the DiffieHellman
\* object its local dh refers to and the private key of that object, the
\* key compute_shared_secret returned, and for _handle_key_exchange whether
\* peer_dh had an entry when it began, the object of that entry, the object
\* whose public value initiate_key_exchange returned and that value.
InManager(pc, c, method, inv, ref, lpriv, key, had, before, sentref, sent) ==
    [pc |-> pc, c |-> c, method |-> method, inv |-> inv, ref |-> ref, lpriv |-> lpriv,
     key |-> key, had |-> had, before |-> before, sentref |-> sentref, sent |-> sent]
NoManagerCall == [op |-> "none", arg |-> "", pub |-> 0, priv |-> 0]
NotInManager == InManager("idle", NoManagerCall, "none", 0, 0, 0, <<>>, FALSE, 0, 0, 0)

\* What the last _handle_key_exchange that ended did: whether it sent a
\* response, whether peer_dh had an entry for the peer when it began and the
\* object of that entry, the object whose public value it sent, and the
\* object from which the session key it installed was computed.
Handled(done, had, before, sentref, usedref) ==
    [done |-> done, had |-> had, before |-> before, sentref |-> sentref,
     usedref |-> usedref]
NotHandled == Handled(FALSE, FALSE, 0, 0, 0)

(***************************************************************************)
(* client.py: Client.send_msg and Client.disconnect, statement by          *)
(* statement, on one Client used by several threads.                       *)
(***************************************************************************)
SendThreads == {"s1", "s2"}

Conns == 1 .. MaxConns

\* An SSLSocket of the set: the address getpeername gives, whether close was
\* called on it, and whether the peer has dropped it (sendall then raises).
Socket(peer, closed, reset) == [peer |-> peer, closed |-> closed, reset |-> reset]

\* A thread inside send_msg: the list built at line 152, how many items the
\* for statement has taken from it, the connection c of the current turn, and
\* for every connection how many turns the loop gave it and how the last
\* turn ended.
InSendMsg(pc, snapshot, i, c, attempts, outcome) ==
    [pc |-> pc, snapshot |-> snapshot, i |-> i, c |-> c, attempts |-> attempts,
     outcome |-> outcome]
NotSending == InSendMsg("idle", <<>>, 0, 0, [c \in Conns |-> 0], [c \in Conns |-> "none"])

\* The thread inside disconnect: its argument, the list built at line 189, the
\* position in it, the current conn and the connection it closed.
InDisconnect(pc, addr_str, snapshot, i, conn, closed) ==
    [pc |-> pc, addr_str |-> addr_str, snapshot |-> snapshot, i |-> i, conn |-> conn,
     closed |-> closed]
NotDisconnecting == InDisconnect("idle", "", <<>>, 0, 0, 0)

ClientIdle ==
    /\ conn_set = {}
    /\ sockets = [c \in Conns |-> Socket("", FALSE, FALSE)]
    /\ keyed = {}
    /\ sending = [t \in SendThreads |-> NotSending]
    /\ disconnecting = NotDisconnecting

\* The last call made on the manager used by one thread.
RegistryCall(op, peer_addr, exc, before) ==
    [op |-> op, peer_addr |-> peer_addr, exc |-> exc, before |-> before]
NoRegistryCall == RegistryCall("none", "", "None", NewManager)

RegistryIdle ==
    /\ registry = NewManager
    /\ reg_call = NoRegistryCall

ManagerIdle ==
    /\ secure_manager = NewSecureManager
    /\ mgr_calling = [t \in CallThreads |-> NotInManager]
    /\ mgr_history = [calls |-> <<>>, clock |-> 0, n |-> 0]
    /\ handled = NotHandled

(***************************************************************************)
(* test_security.py, test_diffie_hellman                                   *)
(***************************************************************************)
InitDH ==
    /\ \E a \in PrivateKeys : alice_dh = NewDiffieHellman(a)
    /\ \E b \in PrivateKeys : bob_dh = NewDiffieHellman(b)
    /\ alice_public = PNone /\ bob_public = PNone
    /\ alice_shared = PNone /\ bob_shared = PNone
    /\ alice_got = NoCall.result /\ bob_got = NoCall.result
    /\ HmacIdle
    /\ InitNetwork
    /\ PeersIdle
    /\ ManagerIdle
    /\ RegistryIdle
    /\ ClientIdle

\* alice_public = alice_dh.get_public_key(); bob_public = ...
ExchangePublicKeys ==
    /\ alice_public = PNone
    /\ alice_public' = PInt(alice_dh.public_key)
    /\ bob_public' = PInt(bob_dh.public_key)
    /\ UNCHANGED <<alice_dh, bob_dh, alice_shared, bob_shared, alice_got, bob_got,
                   security, call, protoVars, peersVars, managerVars, clientVars, registryVars>>

\* alice_shared = alice_dh.compute_shared_secret(bob_public)
AliceComputes ==
    /\ bob_public # PNone
    /\ LET r == ComputeSharedSecret(alice_dh, bob_public.v)
       IN  /\ alice_dh' = r.dh
           /\ alice_shared' = PBytes(r.key)
    /\ UNCHANGED <<bob_dh, alice_public, bob_public, bob_shared, alice_got, bob_got,
                   security, call, protoVars, peersVars, managerVars, clientVars, registryVars>>

\* bob_shared = bob_dh.compute_shared_secret(alice_public)
BobComputes ==
    /\ alice_public # PNone
    /\ LET r == ComputeSharedSecret(bob_dh, alice_public.v)
       IN  /\ bob_dh' = r.dh
           /\ bob_shared' = PBytes(r.key)
    /\ UNCHANGED <<alice_dh, alice_public, bob_public, alice_shared, alice_got, bob_got,
                   security, call, protoVars, peersVars, managerVars, clientVars, registryVars>>

\* alice_dh.get_shared_secret()
AliceGetsSharedSecret ==
    /\ alice_got' = GetSharedSecret(alice_dh)
    /\ UNCHANGED <<alice_dh, bob_dh, alice_public, bob_public, alice_shared, bob_shared,
                   bob_got, security, call, protoVars, peersVars, managerVars, clientVars, registryVars>>

\* bob_dh.get_shared_secret()
BobGetsSharedSecret ==
    /\ bob_got' = GetSharedSecret(bob_dh)
    /\ UNCHANGED <<alice_dh, bob_dh, alice_public, bob_public, alice_shared, bob_shared,
                   alice_got, security, call, protoVars, peersVars, managerVars, clientVars, registryVars>>

NextDH ==
    \/ ExchangePublicKeys
    \/ AliceComputes
    \/ BobComputes
    \/ AliceGetsSharedSecret
    \/ BobGetsSharedSecret

SpecDH == InitDH /\ [][NextDH]_vars

\* C2: when Alice and Bob, each with an independently drawn key pair, have
\* both computed the shared secret from the other's public key, the two keys
\* returned are equal, and equal the key derived from G^(a*b) mod P, which
\* the two key pairs alone determine.
C2_DHSymmetry ==
    (alice_shared # PNone /\ bob_shared # PNone) =>
        /\ alice_shared = bob_shared
        /\ alice_shared =
             PBytes(DeriveKey(Pow(G, alice_dh.private_key * bob_dh.private_key, P)))

\* Both have computed the key, from different private exponents.
C2_Witness ==
    /\ alice_shared # PNone /\ bob_shared # PNone
    /\ alice_dh.private_key # bob_dh.private_key

\* C26: a call of get_shared_secret on an instance on which
\* compute_shared_secret has not been called raises; a call after it returns
\* the key compute_shared_secret returned.
C26_GetSharedSecretContract ==
    [][/\ alice_got' # alice_got =>
              alice_got' = IF alice_shared = PNone THEN Raise("Exception")
                           ELSE Return(alice_shared)
       /\ bob_got' # bob_got =>
              bob_got' = IF bob_shared = PNone THEN Raise("Exception")
                         ELSE Return(bob_shared)]_vars

\* C26, witness: Alice's get_shared_secret returned the key her
\* compute_shared_secret had returned, and Bob's, called before his
\* compute_shared_secret, raised.
C26_Witness ==
    /\ alice_shared # PNone /\ alice_got = Return(alice_shared)
    /\ bob_shared = PNone /\ bob_got = Raise("Exception")

(***************************************************************************)
(* test_security.py, test_hmac_integrity and test_hmac_resistance: one     *)
(* call on a fresh MessageSecurity per run.                                *)
(***************************************************************************)
\* Tags that are no HMAC-SHA256 hex digest: too short, not hexadecimal,
\* not ASCII, not a string.
BadTags ==
    <<PStr(<<>>), PStr(Lit(<<"z", "z">>)), PStr(Lit(<<"U+00E9">>)), PInt(7), PNone>>

\* Messages that are not strings.
BadMessages == <<PInt(7), PNone, PList(<<PStr(Lit(<<"a">>))>>)>>

\* Texts that are no {msg, hmac} envelope.
NotEnvelopes ==
    <<PStr(<<>>),
      PStr(Lit(<<"h", "i">>)),
      PStr(Lit(<<"{", "\"", "m", "s", "g", "\"", ":">>)),
      PStr(JsonDumps(PList(<<PInt(1)>>))),
      PStr(JsonDumps(PInt(7))),
      PStr(JsonDumps(PStr(Lit(<<"a">>)))),
      PStr(JsonDumps(PNone)),
      PStr(JsonDumps(PDict(<<>>))),
      PStr(JsonDumps(PDict(<<<<HmacField, PStr(Lit(<<"z", "z">>))>>>>))),
      PStr(JsonDumps(PDict(<<<<MsgField, PStr(Lit(<<"a">>))>>>>)))>>

\* json.dumps({"msg": message, "hmac": tag}) written without create_hmac.
Envelope(message, tag) ==
    PStr(JsonDumps(PDict(<<<<MsgField, message>>, <<HmacField, tag>>>>)))

InitHmac ==
    /\ \E k \in SessionKeys : security = MessageSecurity(k)
    /\ call = NoCall
    /\ DhIdle
    /\ InitNetwork
    /\ PeersIdle
    /\ ManagerIdle
    /\ RegistryIdle
    /\ ClientIdle

\* security.create_hmac(m)
CallCreateHmac ==
    /\ call = NoCall
    /\ \E m \in Messages :
        /\ call' = Call("create_hmac", PStr(m), PNone, "raw", <<>>, PNone,
                        CreateHmac(security.shared_key, PStr(m)))
        /\ UNCHANGED <<alice_dh, bob_dh, alice_public, bob_public, alice_shared,
                       bob_shared, alice_got, bob_got, security, protoVars, peersVars, managerVars, clientVars, registryVars>>

\* security.verify_hmac(m, tag), tag = create_hmac(m2) of a MessageSecurity
\* with key k2.
CallVerifyHmac ==
    /\ call = NoCall
    /\ \E m \in Messages, k2 \in SessionKeys, m2 \in Messages :
        LET tag == CreateHmac(k2, PStr(m2)).ret
        IN  /\ call' = Call("verify_hmac", PStr(m), tag, "own", k2, PStr(m2),
                            VerifyHmac(security.shared_key, PStr(m), tag))
            /\ UNCHANGED <<alice_dh, bob_dh, alice_public, bob_public, alice_shared,
                           bob_shared, alice_got, bob_got, security, protoVars, peersVars, managerVars, clientVars, registryVars>>

\* security.verify_hmac(m, tag) with a tag that is no digest.
CallVerifyBadTag ==
    /\ call = NoCall
    /\ \E m \in Messages, i \in DOMAIN BadTags :
        /\ call' = Call("verify_hmac", PStr(m), BadTags[i], "raw", <<>>, PNone,
                        VerifyHmac(security.shared_key, PStr(m), BadTags[i]))
        /\ UNCHANGED <<alice_dh, bob_dh, alice_public, bob_public, alice_shared,
                       bob_shared, alice_got, bob_got, security, protoVars, peersVars, managerVars, clientVars, registryVars>>

\* security.verify_hmac(message, tag) with a message that is no string.
CallVerifyBadMessage ==
    /\ call = NoCall
    /\ \E i \in DOMAIN BadMessages, k2 \in SessionKeys, m2 \in Messages :
        LET tag == CreateHmac(k2, PStr(m2)).ret
        IN  /\ call' = Call("verify_hmac", BadMessages[i], tag, "own", k2, PStr(m2),
                            VerifyHmac(security.shared_key, BadMessages[i], tag))
            /\ UNCHANGED <<alice_dh, bob_dh, alice_public, bob_public, alice_shared,
                           bob_shared, alice_got, bob_got, security, protoVars, peersVars, managerVars, clientVars, registryVars>>

\* security.package_message(m)
CallPackageMessage ==
    /\ call = NoCall
    /\ \E m \in Messages :
        /\ call' = Call("package_message", PStr(m), PNone, "raw", <<>>, PNone,
                        PackageMessage(security.shared_key, PStr(m)))
        /\ UNCHANGED <<alice_dh, bob_dh, alice_public, bob_public, alice_shared,
                       bob_shared, alice_got, bob_got, security, protoVars, peersVars, managerVars, clientVars, registryVars>>

\* security.unpackage_message(package), package = package_message(m2) of a
\* MessageSecurity with key k2.
CallUnpackageMessage ==
    /\ call = NoCall
    /\ \E k2 \in SessionKeys, m2 \in Messages :
        LET package == PackageMessage(k2, PStr(m2)).ret
        IN  /\ call' = Call("unpackage_message", PNone, package, "own", k2, PStr(m2),
                            UnpackageMessage(security.shared_key, package))
            /\ UNCHANGED <<alice_dh, bob_dh, alice_public, bob_public, alice_shared,
                           bob_shared, alice_got, bob_got, security, protoVars, peersVars, managerVars, clientVars, registryVars>>

\* security.unpackage_message(text) with a text that is no envelope.
CallUnpackageNotEnvelope ==
    /\ call = NoCall
    /\ \E i \in DOMAIN NotEnvelopes :
        /\ call' = Call("unpackage_message", PNone, NotEnvelopes[i], "raw", <<>>, PNone,
                        UnpackageMessage(security.shared_key, NotEnvelopes[i]))
        /\ UNCHANGED <<alice_dh, bob_dh, alice_public, bob_public, alice_shared,
                       bob_shared, alice_got, bob_got, security, protoVars, peersVars, managerVars, clientVars, registryVars>>

\* security.unpackage_message(envelope) with an envelope whose tag is no
\* digest.
CallUnpackageBadTag ==
    /\ call = NoCall
    /\ \E m \in Messages, i \in DOMAIN BadTags :
        LET package == Envelope(PStr(m), BadTags[i])
        IN  /\ call' = Call("unpackage_message", PStr(m), package, "raw", <<>>, PNone,
                            UnpackageMessage(security.shared_key, package))
            /\ UNCHANGED <<alice_dh, bob_dh, alice_public, bob_public, alice_shared,
                           bob_shared, alice_got, bob_got, security, protoVars, peersVars, managerVars, clientVars, registryVars>>

\* security.unpackage_message(envelope) with an envelope whose msg is no
\* string.
CallUnpackageBadMessage ==
    /\ call = NoCall
    /\ \E i \in DOMAIN BadMessages, k2 \in SessionKeys, m2 \in Messages :
        LET package == Envelope(BadMessages[i], CreateHmac(k2, PStr(m2)).ret)
        IN  /\ call' = Call("unpackage_message", BadMessages[i], package, "raw", <<>>,
                            PNone, UnpackageMessage(security.shared_key, package))
            /\ UNCHANGED <<alice_dh, bob_dh, alice_public, bob_public, alice_shared,
                           bob_shared, alice_got, bob_got, security, protoVars, peersVars, managerVars, clientVars, registryVars>>

NextHmac ==
    \/ CallCreateHmac
    \/ CallVerifyHmac
    \/ CallVerifyBadTag
    \/ CallVerifyBadMessage
    \/ CallPackageMessage
    \/ CallUnpackageMessage
    \/ CallUnpackageNotEnvelope
    \/ CallUnpackageBadTag
    \/ CallUnpackageBadMessage

SpecHmac == InitHmac /\ [][NextHmac]_vars

\* C3: a tag made by create_hmac for message m under the key of the
\* MessageSecurity is accepted by verify_hmac for the same m under that key.
C3_VerifyAcceptsOwnTag ==
    (/\ call.op = "verify_hmac" /\ call.origin = "own"
     /\ call.tag_key = security.shared_key
     /\ call.message.t = "str"
     /\ call.tag_message = call.message)
        => call.result = Return(PBool(TRUE))

\* verify_hmac accepted the tag of a message of MaxMsgLen characters that
\* holds a non-ASCII character.
C3_Witness ==
    /\ call.op = "verify_hmac" /\ call.origin = "own"
    /\ call.tag_key = security.shared_key
    /\ call.message.t = "str"
    /\ call.tag_message = call.message
    /\ Len(call.message.v) = MaxMsgLen
    /\ \E i \in DOMAIN call.message.v : call.message.v[i].c = "U+00E9"
    /\ call.result = Return(PBool(TRUE))

\* C4: verify_hmac returns False for a tag that create_hmac made for a
\* different message, or made under a different key.
C4_VerifyRejectsOtherMessageOrKey ==
    (/\ call.op = "verify_hmac" /\ call.origin = "own"
     /\ call.message.t = "str"
     /\ (call.tag_key # security.shared_key \/ call.tag_message # call.message))
        => call.result = Return(PBool(FALSE))

\* verify_hmac rejected the tag of the same message made under another key.
C4_Witness ==
    /\ call.op = "verify_hmac" /\ call.origin = "own"
    /\ call.tag_key # security.shared_key
    /\ call.message.t = "str"
    /\ call.tag_message = call.message
    /\ call.result = Return(PBool(FALSE))

\* C5: unpackage_message of what package_message made of m under the same
\* key returns (m, True).
C5_EnvelopeRoundTrip ==
    (/\ call.op = "unpackage_message" /\ call.origin = "own"
     /\ call.tag_key = security.shared_key)
        => call.result = Return(PTuple(<<call.tag_message, PBool(TRUE)>>))

\* The round trip of a message that holds a quote and a backslash.
C5_Witness ==
    /\ call.op = "unpackage_message" /\ call.origin = "own"
    /\ call.tag_key = security.shared_key
    /\ call.tag_message = PStr(Lit(<<"\"", "\\">>))
    /\ call.result.exc = "None"
    /\ call.result.ret.v[2] = PBool(TRUE)

\* A text is no envelope: not JSON, JSON that is no object, or an object
\* without msg or without hmac.
NotAnEnvelope(text) ==
    With(JsonLoads(text.v), LAMBDA d :
        \/ d.exc # "None"
        \/ d.ret.t # "dict"
        \/ ~DictHas(d.ret, MsgField)
        \/ ~DictHas(d.ret, HmacField))

\* C6: unpackage_message returns (None, False), and raises nothing, for
\* every text that is no envelope.
C6_NotEnvelopeYieldsNoneFalse ==
    (call.op = "unpackage_message" /\ NotAnEnvelope(call.arg))
        => call.result = Return(PTuple(<<PNone, PBool(FALSE)>>))

\* C7: verify_hmac returns False, and raises nothing, for every tag that is
\* not the tag of the message, whatever the tag and the message are; and
\* unpackage_message of an envelope carrying such a tag returns with
\* valid = False.
C7_MismatchNeverRaises ==
    /\ (/\ call.op = "verify_hmac"
        /\ ~(call.origin = "own" /\ call.tag_key = security.shared_key
             /\ call.message.t = "str" /\ call.tag_message = call.message))
           => call.result = Return(PBool(FALSE))
    /\ (/\ call.op = "unpackage_message" /\ call.origin = "raw"
        /\ ~NotAnEnvelope(call.arg))
           => /\ call.result.exc = "None"
              /\ call.result.ret.v[2] = PBool(FALSE)

(***************************************************************************)
(* client.py and server.py: the payloads of a connection. A payload is     *)
(* the byte string one sendall hands to the socket; one recv returns one   *)
(* payload.                                                                *)
(***************************************************************************)
TypeField == Lit(<<"t", "y", "p", "e">>)
PublicKeyField == Lit(<<"p", "u", "b", "l", "i", "c", "_", "k", "e", "y">>)
UsernameField == Lit(<<"u", "s", "e", "r", "n", "a", "m", "e">>)
DhKeyExchange ==
    PStr(Lit(<<"D", "H", "_", "K", "E", "Y", "_", "E", "X", "C", "H", "A", "N", "G", "E">>))
DisconnectSentinel ==
    Lit(<<"_", "_", "D", "I", "S", "C", "O", "N", "N", "E", "C", "T", "_", "_">>)

\* key_package of _exchange_keys and response of _handle_key_exchange
KeyPackage(public_key, username) ==
    PDict(<<<<TypeField, DhKeyExchange>>, <<PublicKeyField, public_key>>,
            <<UsernameField, username>>>>)

\* json.dumps(package).encode('utf-8')
KeyPackageBytes(public_key, username) ==
    Utf8Encode(JsonDumps(KeyPackage(public_key, username)))

\* The chat line typed on a node.
ChatMessage == PStr(Lit(<<"h", "i">>))

\* Every order in which a set can be iterated.
Orders(S) ==
    {o \in [1 .. Cardinality(S) -> S] : \A x \in S : \E i \in DOMAIN o : o[i] = x}

\* Server socket listening: Server.finish closes it when Server.start ends.
\* The foreign peer always listens.
Listening(m) == m = Foreign \/ accepting[m].pc # "dead"

(***************************************************************************)
(* server.py: Server._handle_key_exchange for the connection accepted from *)
(* addr, priv being the exponent initiate_key_exchange draws: the manager  *)
(* afterwards, the response to send (none when an exception was caught     *)
(* before sendall) and the session key installed.                          *)
(***************************************************************************)
HandleKeyExchange(mgr, username, addr, package, priv) ==
    With(Subscript(package, PublicKeyField), LAMBDA peer_public_key :
        IF peer_public_key.exc # "None"
        THEN [m |-> mgr, response |-> <<>>, key |-> PNone]
        ELSE With(TupleToSocket(addr), LAMBDA peer_addr :
             With(InitiateKeyExchange(mgr, peer_addr, priv), LAMBDA i :
             With(CompleteKeyExchange(i.m, peer_addr, peer_public_key.ret, priv),
                  LAMBDA c :
                 IF c.exc # "None"
                 THEN [m |-> c.m, response |-> <<>>, key |-> PNone]
                 ELSE [m |-> c.m,
                       response |-> <<KeyPackageBytes(PInt(i.ret), username)>>,
                       key |-> PBytes(c.m.peer_keys[peer_addr].shared_key)]))))

(***************************************************************************)
(* server.py: Server.start, lines 82-91, for the first payload of link k:  *)
(* what the accept loop does next. "key_exchange" and "handle" go on to    *)
(* start the handle_peer thread, "peers" enters _handle_peers with the     *)
(* tokens of the text, "exit" leaves the loop through the outer except     *)
(* (an exception that is neither JSONDecodeError nor ssl.SSLError).        *)
(***************************************************************************)
FirstPayload(k) ==
    IF k.broken THEN [do |-> "exit", package |-> PNone, todo |-> <<>>]
    ELSE With(Utf8Decode(IF k.c2s = <<>> THEN <<>> ELSE Head(k.c2s)), LAMBDA data :
        IF ~data.ok THEN [do |-> "exit", package |-> PNone, todo |-> <<>>]
        ELSE With(JsonLoads(data.v), LAMBDA package :
            IF package.exc # "None"
            THEN [do |-> "peers", package |-> PNone,
                  todo |-> SplitWs(data.v)]
            ELSE IF package.ret.t # "dict"
            THEN [do |-> "exit", package |-> PNone, todo |-> <<>>]
            ELSE IF DictHas(package.ret, TypeField)
                    /\ DictGet(package.ret, TypeField).t = "str"
                    /\ DictGet(package.ret, TypeField) = DhKeyExchange
            THEN [do |-> "key_exchange", package |-> package.ret, todo |-> <<>>]
            ELSE [do |-> "handle", package |-> package.ret, todo |-> <<>>]))

(***************************************************************************)
(* client.py: Client._exchange_keys from its recv on, lines 134-148, for   *)
(* link k to peer_addr; priv is the exponent complete_key_exchange draws   *)
(* when peer_dh has lost the entry. The manager afterwards, the exception  *)
(* re-raised to connect and the session key installed.                     *)
(***************************************************************************)
ExchangeKeysRecv(mgr, peer_addr, k, priv) ==
    IF k.broken THEN [m |-> mgr, exc |-> "OSError", key |-> PNone]
    ELSE With(Utf8Decode(IF k.s2c = <<>> THEN <<>> ELSE Head(k.s2c)), LAMBDA data :
        IF ~data.ok THEN [m |-> mgr, exc |-> "UnicodeDecodeError", key |-> PNone]
        ELSE With(JsonLoads(data.v), LAMBDA peer_package :
            IF peer_package.exc # "None"
            THEN [m |-> mgr, exc |-> peer_package.exc, key |-> PNone]
            ELSE With(Subscript(peer_package.ret, TypeField), LAMBDA type :
                IF type.exc # "None" THEN [m |-> mgr, exc |-> type.exc, key |-> PNone]
                ELSE IF type.ret.t # "str" \/ type.ret # DhKeyExchange
                THEN [m |-> mgr, exc |-> "None", key |-> PNone]
                ELSE With(Subscript(peer_package.ret, PublicKeyField),
                          LAMBDA peer_public_key :
                    IF peer_public_key.exc # "None"
                    THEN [m |-> mgr, exc |-> peer_public_key.exc, key |-> PNone]
                    ELSE With(CompleteKeyExchange(mgr, peer_addr, peer_public_key.ret,
                                                  priv), LAMBDA c :
                        [m |-> c.m, exc |-> c.exc,
                         key |-> IF c.exc = "None"
                                 THEN PBytes(c.m.peer_keys[peer_addr].shared_key)
                                 ELSE PNone])))))

(***************************************************************************)
(* server.py: Server.handle_peer, one turn of its loop (lines 147-184) on  *)
(* link l: whether the loop is left (recv raised, no data, undecodable     *)
(* data, the sentinel) and otherwise what was done with the payload.       *)
(***************************************************************************)
\* The names handle_peer binds; line 143, which bound peer_addr, is a
\* comment.
HandlePeerNames ==
    {"self", "conn", "addr", "data", "msg_data", "security", "message", "is_valid", "e"}

\* A handle_peer that stays in its loop on an empty read and on the
\* sentinel.
HandlePeerTurnMutNoExit(mgr, l, k) ==
    IF k.broken THEN [exit |-> TRUE, rx |-> NoRx]
    ELSE [exit |-> FALSE,
          rx |-> Rx(PStr(IF k.c2s = <<>> THEN <<>> ELSE Utf8Decode(Head(k.c2s)).v),
                    PNone, PNone, FALSE, FALSE)]

HandlePeerTurn(mgr, l, k) ==
    IF k.broken \/ k.c2s = <<>> THEN [exit |-> TRUE, rx |-> NoRx]
    ELSE With(Utf8Decode(Head(k.c2s)), LAMBDA data :
        IF ~data.ok \/ data.v = DisconnectSentinel THEN [exit |-> TRUE, rx |-> NoRx]
        ELSE With(PStr(data.v), LAMBDA msg_data :
             With(GetSecurity(mgr, SocketObject(l)), LAMBDA sec :
            IF sec = PNone
            THEN [exit |-> FALSE, rx |-> Rx(msg_data, msg_data, PNone, FALSE, FALSE)]
            ELSE With(UnpackageMessage(sec.shared_key, msg_data), LAMBDA u :
                IF u.exc # "None"
                THEN [exit |-> FALSE, rx |-> Rx(msg_data, msg_data, msg_data, FALSE, FALSE)]
                ELSE IF u.ret.v[2] = PBool(TRUE)
                THEN [exit |-> FALSE,
                      rx |-> Rx(msg_data, u.ret.v[1], u.ret.v[1], FALSE, FALSE)]
                ELSE IF "peer_addr" \in HandlePeerNames
                THEN [exit |-> FALSE, rx |-> Rx(msg_data, PNone, PNone, TRUE, TRUE)]
                ELSE [exit |-> FALSE,
                      rx |-> Rx(msg_data, msg_data, msg_data, TRUE, FALSE)]))))

(***************************************************************************)
(* client.py: Client.connect, step by step. A step ends where the thread   *)
(* blocks on the socket (TLS handshake, recv of the DH reply) or where     *)
(* another thread of the node can observe what it did.                     *)
(***************************************************************************)
\* Client.connect returns on thread th; the main loop takes the next command.
ConnectReturns(n, th, arg, result, seq) ==
    /\ connecting' = [connecting EXCEPT ![n][th] = NotConnecting]
    /\ returned' = IF th = "main"
                   THEN [returned EXCEPT ![n] = Command("connect", arg, seq, result)]
                   ELSE returned

\* Lines 70-79 up to the TLS handshake: a loopback address raises
\* ClientException, an address nobody listens on makes conn.connect raise;
\* both are caught and connect returns.
ConnectBegin(n, th, arg, seq) ==
    LET addr == SocketToTuple(arg).ret
    IN  IF addr[1] \in LoopbackIps
        THEN ConnectReturns(n, th, arg, "loopback", seq) /\ UNCHANGED links
        ELSE IF ~\E m \in Nodes \cup {Foreign} : ListenAddr(m) = addr /\ Listening(m)
        THEN ConnectReturns(n, th, arg, "refused", seq) /\ UNCHANGED links
        ELSE /\ Len(links) < MaxLinks
             /\ links' = Append(links,
                    NewLink(n, th, CHOOSE m \in Nodes \cup {Foreign} : ListenAddr(m) = addr))
             /\ connecting' =
                    [connecting EXCEPT ![n][th] = Connecting("handshake", Len(links) + 1, arg)]
             /\ UNCHANGED returned

\* The addresses typed after /connect and /disconnect on node n: the other
\* nodes, a loopback address, and the foreign peer.
CommandTargets(n) ==
    {ObterHostname(m) : m \in Nodes \ {n}}
        \cup {TupleToSocket(<<"127.0.0.1", ListenPort>>), TupleToSocket(ListenAddr(Foreign))}

\* main.py, '/connect': cliente.connect(socket_to_tuple(arg), hostname)
CmdConnect(n, arg) ==
    /\ connecting[n]["main"].pc = "none"
    /\ ncmds < MaxCommands
    /\ ncmds' = ncmds + 1
    /\ ConnectBegin(n, "main", arg, ncmds + 1)
    /\ UNCHANGED <<manager, peers, connections, concount, accepting, unitVars>>

\* The TLS handshake of link l: conn.connect(addr) on the client with
\* wrap_socket on the accept thread of the server. When it succeeds (ok) the
\* client goes on to _exchange_keys, lines 121-131, and blocks in recv; the
\* server blocks in the recv of the first payload. When it fails both sides
\* get ssl.SSLError: the server closes client_sock and accepts again, the
\* client returns from connect.
TlsHandshake(l, ok, priv) ==
    LET k  == links[l]
        n  == k.client
        th == k.thread
        m  == k.target
    IN  /\ k.csock = "handshake"
        /\ m \in Nodes
        /\ accepting[m].pc = "accept"
        /\ IF ok
           THEN \E i \in {InitiateKeyExchange(manager[n], TupleToSocket(GetPeerName(k)), priv)} :
                /\ links' = [links EXCEPT ![l] =
                       [k EXCEPT !.csock = "open", !.ssock = "open",
                                 !.c2s = <<KeyPackageBytes(PInt(i.ret), Username(n))>>,
                                 !.known = peers[m]]]
                /\ manager' = [manager EXCEPT ![n] = i.m]
                /\ connecting' = [connecting EXCEPT ![n][th].pc = "dh_wait"]
                /\ accepting' = [accepting EXCEPT ![m] = Accepting("first_recv", l, <<>>)]
                /\ UNCHANGED returned
           ELSE /\ priv = 1
                /\ links' = [links EXCEPT ![l] = [k EXCEPT !.csock = "open", !.ssock = "closed"]]
                /\ ConnectReturns(n, th, connecting[n][th].arg, "ssl_error", ncmds)
                /\ UNCHANGED <<manager, accepting>>
        /\ UNCHANGED <<peers, connections, concount, ncmds, unitVars>>

\* _exchange_keys, lines 134-148, then update_connections (line 101) when no
\* exception was raised; otherwise the except of connect, line 116, which
\* finds conn absent from the set, and the return.
ExchangeKeysReply(n, th) ==
    LET l == connecting[n][th].link
        k == links[l]
        peer_addr == TupleToSocket(GetPeerName(k))
    IN  /\ connecting[n][th].pc = "dh_wait"
        /\ k.s2c # <<>> \/ k.ssock = "closed" \/ k.broken
        /\ \E priv \in IF peer_addr \in DOMAIN manager[n].peer_dh THEN {1} ELSE Drawn :
           \E r \in {ExchangeKeysRecv(manager[n], peer_addr, k, priv)} :
             /\ manager' = [manager EXCEPT ![n] = r.m]
             /\ IF r.exc = "None"
                THEN /\ links' = [links EXCEPT ![l] =
                            [k EXCEPT !.s2c = Tail(@), !.ikey = r.key]]
                     /\ connections' = [connections EXCEPT ![n] = @ \cup {l}]
                     /\ concount' = [concount EXCEPT ![n] = @ + 1]
                     /\ connecting' = [connecting EXCEPT ![n][th].pc = "send_peers"]
                     /\ UNCHANGED returned
                ELSE /\ links' = [links EXCEPT ![l].s2c =
                            IF k.broken \/ @ = <<>> THEN @ ELSE Tail(@)]
                     /\ ConnectReturns(n, th, connecting[n][th].arg, "error", ncmds)
                     /\ UNCHANGED <<connections, concount>>
        /\ UNCHANGED <<peers, accepting, ncmds, unitVars>>

\* send_peers and peersdb.add, lines 102-103, the peers taken from the live
\* set in the order o of its iteration. When sendall raises, the except of
\* connect that catches it removes conn from the set (line 117), unless the
\* error is an ssl.SSLError (ssl), which the first except clause catches
\* (lines 109-111).
SendPeers(n, th) ==
    LET l == connecting[n][th].link
        k == links[l]
        arg == connecting[n][th].arg
    IN  /\ connecting[n][th].pc = "send_peers"
        /\ IF k.broken
           THEN \E ssl \in BOOLEAN :
                /\ connections' = IF ssl THEN connections
                                  ELSE [connections EXCEPT ![n] = @ \ {l}]
                /\ ConnectReturns(n, th, arg, IF ssl THEN "ssl_error" ELSE "error", ncmds)
                /\ UNCHANGED <<links, peers>>
           ELSE \E o \in Orders(peers[n]) :
                /\ links' = [links EXCEPT ![l].c2s =
                       Append(@, Utf8Encode(JoinPeers(ObterHostname(n).v, o)))]
                /\ peers' = [peers EXCEPT ![n] = @ \cup {TupleToSocket(GetPeerName(k))}]
                /\ ConnectReturns(n, th, arg, "ok", ncmds)
                /\ UNCHANGED connections
        /\ UNCHANGED <<manager, concount, accepting, ncmds, unitVars>>

(***************************************************************************)
(* server.py: Server.start, _handle_peers and handle_peer.                 *)
(***************************************************************************)
\* Server.start from the recv of the first payload (line 82) to the start
\* of the handle_peer thread (line 96), for everything but a peer list.
AcceptFirstPayload(m, priv) ==
    LET l == accepting[m].link
        k == links[l]
        rest == IF k.broken \/ k.c2s = <<>> THEN k.c2s ELSE Tail(k.c2s)
    IN  /\ accepting[m].pc = "first_recv"
        /\ k.c2s # <<>> \/ k.csock = "closed" \/ k.broken
        /\ \E f \in {FirstPayload(k)} :
             IF f.do = "exit"
             THEN /\ priv = 1
                  /\ accepting' = [accepting EXCEPT ![m] = Accepting("dead", l, <<>>)]
                  /\ links' = [links EXCEPT ![l].c2s = rest]
                  /\ UNCHANGED manager
             ELSE IF f.do = "peers"
             THEN /\ priv = 1
                  /\ accepting' = [accepting EXCEPT ![m] = Accepting("peers", l, f.todo)]
                  /\ links' = [links EXCEPT ![l].c2s = rest]
                  /\ UNCHANGED manager
             ELSE IF f.do = "handle"
             THEN /\ priv = 1
                  /\ accepting' = [accepting EXCEPT ![m] = Accepting("accept", 0, <<>>)]
                  /\ links' = [links EXCEPT ![l] =
                         [k EXCEPT !.c2s = rest, !.handler = "running"]]
                  /\ UNCHANGED manager
             ELSE \E h \in {HandleKeyExchange(manager[m], Username(m), AcceptedAddr(l, k),
                                              f.package, priv)} :
                  /\ accepting' = [accepting EXCEPT ![m] = Accepting("accept", 0, <<>>)]
                  /\ links' = [links EXCEPT ![l] =
                         [k EXCEPT !.c2s = rest, !.s2c = @ \o h.response,
                                   !.handler = "running", !.rkey = h.key]]
                  /\ manager' = [manager EXCEPT ![m] = h.m]
        /\ UNCHANGED <<peers, connections, concount, connecting, returned, ncmds, unitVars>>

\* Server._handle_peers, the head of its loop (lines 134-138): the next
\* token p is skipped, or client.cliente.connect is entered for it on this
\* thread; after the last token Server.start starts the handle_peer thread.
\* socket_to_tuple raising on a token leaves Server.start.
HandlePeersNext(m) ==
    LET a == accepting[m]
        p == Head(a.todo)
    IN  /\ a.pc = "peers"
        /\ IF a.todo = <<>>
           THEN /\ accepting' = [accepting EXCEPT ![m] = Accepting("accept", 0, <<>>)]
                /\ links' = [links EXCEPT ![a.link].handler = "running"]
                /\ UNCHANGED <<connecting, returned>>
           ELSE IF p = ObterHostname(m) \/ p \in peers[m]
           THEN /\ accepting' = [accepting EXCEPT ![m].todo = Tail(@)]
                /\ UNCHANGED <<links, connecting, returned>>
           ELSE IF SocketToTuple(p).exc # "None"
           THEN /\ accepting' = [accepting EXCEPT ![m] = Accepting("dead", a.link, <<>>)]
                /\ UNCHANGED <<links, connecting, returned>>
           ELSE /\ accepting' = [accepting EXCEPT ![m].pc = "peers_connect"]
                /\ ConnectBegin(m, "accept", p, ncmds)
        /\ UNCHANGED <<manager, peers, connections, concount, ncmds, unitVars>>

\* Server._handle_peers, line 139: connect has returned, peersdb.add(p).
HandlePeersAdd(m) ==
    /\ accepting[m].pc = "peers_connect"
    /\ connecting[m]["accept"].pc = "none"
    /\ peers' = [peers EXCEPT ![m] = @ \cup {Head(accepting[m].todo)}]
    /\ accepting' = [accepting EXCEPT ![m].pc = "peers", ![m].todo = Tail(@)]
    /\ UNCHANGED <<links, manager, connections, concount, connecting, returned, ncmds,
                   unitVars>>

\* Server.handle_peer: one recv and what follows it. Leaving the loop runs
\* the finally clause: conn.close(), then peersdb.remove(peer_addr) and
\* secure_manager.remove_peer(peer_addr), which need the name peer_addr; the
\* NameError of an unbound name ends the thread after the close.
HandlePeerRecv(l) ==
    LET k == links[l]
        m == k.target
        peer_addr == TupleToSocket(AcceptedAddr(l, k))
        rest == IF k.broken \/ k.c2s = <<>> THEN k.c2s ELSE Tail(k.c2s)
    IN  /\ k.handler = "running"
        /\ k.c2s # <<>> \/ k.csock = "closed" \/ k.broken
        /\ \E r \in {HandlePeerTurn(manager[m], l, k)} :
             IF ~r.exit
             THEN /\ links' = [links EXCEPT ![l] = [k EXCEPT !.c2s = rest, !.rx = r.rx]]
                  /\ UNCHANGED <<peers, manager>>
             ELSE IF "peer_addr" \in HandlePeerNames
             THEN /\ links' = [links EXCEPT ![l] =
                         [k EXCEPT !.c2s = rest, !.ssock = "closed", !.handler = "done"]]
                  /\ peers' = [peers EXCEPT ![m] = @ \ {peer_addr}]
                  /\ manager' = [manager EXCEPT ![m] = RemovePeer(@, peer_addr)]
             ELSE /\ links' = [links EXCEPT ![l] =
                         [k EXCEPT !.c2s = rest, !.ssock = "closed", !.handler = "died"]]
                  /\ UNCHANGED <<peers, manager>>
        /\ UNCHANGED <<connections, concount, connecting, accepting, returned, ncmds,
                       unitVars>>

(***************************************************************************)
(* client.py: Client.send_msg and Client.disconnect, each run to its end   *)
(* by the main loop.                                                       *)
(***************************************************************************)
\* A send_msg that sends the message as typed on a connection without key.
SendMsgLoopMutPlain(mgr, lk, conns, todo) ==
    [links |-> [c \in DOMAIN lk |->
                   IF c \in todo /\ ~lk[c].broken
                   THEN [lk[c] EXCEPT !.c2s = Append(@,
                            IF GetSecurity(mgr, TupleToSocket(GetPeerName(lk[c]))) = PNone
                            THEN Utf8Encode(ChatMessage.v)
                            ELSE Utf8Encode(PackageMessage(
                                     GetSecurity(mgr, TupleToSocket(GetPeerName(lk[c])))
                                         .shared_key, ChatMessage).ret.v))]
                   ELSE lk[c]],
     connections |-> conns]

RECURSIVE SendMsgLoop(_, _, _, _)
\* The loop of send_msg over todo, what is left of the snapshot of the
\* set: a connection without security is skipped, a sendall that raises
\* removes the connection from the set and closes it.
SendMsgLoop(mgr, lk, conns, todo) ==
    IF todo = {} THEN [links |-> lk, connections |-> conns]
    ELSE With(CHOOSE c \in todo : TRUE, LAMBDA c :
         With(GetSecurity(mgr, TupleToSocket(GetPeerName(lk[c]))), LAMBDA sec :
             IF sec = PNone THEN SendMsgLoop(mgr, lk, conns, todo \ {c})
             ELSE IF lk[c].broken
             THEN SendMsgLoop(mgr, [lk EXCEPT ![c].csock = "closed"], conns \ {c},
                              todo \ {c})
             ELSE SendMsgLoop(mgr,
                      [lk EXCEPT ![c].c2s = Append(@,
                          Utf8Encode(PackageMessage(sec.shared_key, ChatMessage).ret.v))],
                      conns, todo \ {c})))

\* main.py, a line that is no command: cliente.send_msg(msg)
CmdSendMsg(n) ==
    /\ connecting[n]["main"].pc = "none"
    /\ ncmds < MaxCommands
    /\ \A c \in connections[n] : Len(links[c].c2s) < MaxQueue
    /\ ncmds' = ncmds + 1
    /\ \E r \in {SendMsgLoop(manager[n], links, connections[n], connections[n])} :
        /\ links' = r.links
        /\ connections' = [connections EXCEPT ![n] = r.connections]
    /\ returned' = [returned EXCEPT ![n] = Command("send_msg", ChatMessage, ncmds + 1, "ok")]
    /\ UNCHANGED <<manager, peers, concount, connecting, accepting, unitVars>>

\* A disconnect that forgets the peer whether or not it finds a connection.
DisconnectLoopMutForget(w, order, addr_str) ==
    [w EXCEPT !.peers = @ \ {addr_str}, !.manager = RemovePeer(@, addr_str)]

RECURSIVE DisconnectLoop(_, _, _)
\* The loop of disconnect over the snapshot of the set in the order of its
\* iteration. w holds the links and the node's set, peers and manager. A
\* sendall that raises is caught inside the loop, which goes on to the next
\* connection.
DisconnectLoop(w, order, addr_str) ==
    IF order = <<>> THEN w
    ELSE IF GetPeerName(w.links[Head(order)]) # SocketToTuple(addr_str).ret
    THEN DisconnectLoop(w, Tail(order), addr_str)
    ELSE IF w.links[Head(order)].broken
    THEN DisconnectLoop(w, Tail(order), addr_str)
    ELSE [links |-> [w.links EXCEPT ![Head(order)].c2s =
                         Append(@, Utf8Encode(DisconnectSentinel)),
                     ![Head(order)].csock = "closed"],
          connections |-> w.connections \ {Head(order)},
          peers |-> w.peers \ {addr_str},
          manager |-> RemovePeer(w.manager, addr_str)]

\* main.py, '/disconnect': cliente.disconnect(arg), which returns after
\* closing a connection (line 198) or after the loop (line 201).
CmdDisconnect(n, arg) ==
    /\ connecting[n]["main"].pc = "none"
    /\ ncmds < MaxCommands
    /\ ncmds' = ncmds + 1
    /\ \E order \in Orders(connections[n]) :
       \E w \in {DisconnectLoop([links |-> links, connections |-> connections[n],
                                 peers |-> peers[n], manager |-> manager[n]],
                                order, arg)} :
        /\ links' = w.links
        /\ connections' = [connections EXCEPT ![n] = w.connections]
        /\ peers' = [peers EXCEPT ![n] = w.peers]
        /\ manager' = [manager EXCEPT ![n] = w.manager]
        /\ returned' = [returned EXCEPT ![n] =
               Command("disconnect", arg, ncmds + 1,
                       IF w.connections = connections[n] THEN "not_found" ELSE "closed")]
    /\ UNCHANGED <<concount, connecting, accepting, unitVars>>

(***************************************************************************)
(* The environment: a peer that holds a valid certificate and runs other   *)
(* code (the older format of server.py line 90, a forged envelope), and    *)
(* the transport.                                                          *)
(***************************************************************************)
\* An address the nodes have heard of where no host is up.
Offline == "C"

\* The first payloads the foreign peer sends to node m: a key package, a key
\* package whose public key is a string, a JSON array, a JSON object
\* without type, a peer list naming another node or the offline host, a
\* peer list naming the foreign peer itself and another node, and nothing at
\* all (the empty byte string: the peer stays silent).
ForeignFirstPayloads(m) ==
    {KeyPackageBytes(PInt(Pow(G, 1, P)), Username(Foreign)),
     KeyPackageBytes(PStr(Lit(<<"2">>)), Username(Foreign)),
     Utf8Encode(JsonDumps(PList(<<PInt(1)>>))),
     Utf8Encode(JsonDumps(PDict(<<>>))),
     <<>>}
        \cup {Utf8Encode(ObterHostname(o).v) : o \in (Nodes \ {m}) \cup {Offline}}
        \cup {Utf8Encode(JoinPeers(ObterHostname(Foreign).v, <<ObterHostname(o)>>)) :
                  o \in Nodes \ {m}}

\* The foreign peer connects to node m, passes the TLS handshake with the
\* accept thread and sends its first payload.
ForeignConnect(m, payload) ==
    /\ accepting[m].pc = "accept"
    /\ Len(links) < MaxLinks
    /\ Cardinality({l \in DOMAIN links : links[l].client = Foreign}) < MaxForeign
    /\ links' = Append(links,
           [NewLink(Foreign, "foreign", m) EXCEPT
                !.csock = "open", !.ssock = "open",
                !.c2s = IF payload = <<>> THEN <<>> ELSE <<payload>>])
    /\ accepting' = [accepting EXCEPT ![m] = Accepting("first_recv", Len(links) + 1, <<>>)]
    /\ UNCHANGED <<manager, peers, connections, concount, connecting, returned, ncmds,
                   unitVars>>

\* The replies of the foreign peer to a key package: a JSON object of
\* another type.
ForeignReplies ==
    {Utf8Encode(JsonDumps(PDict(<<<<TypeField, PStr(Lit(<<"P", "E", "E", "R", "S">>))>>>>)))}

\* The foreign peer accepts the connection of link l and passes the TLS
\* handshake; the client goes on to _exchange_keys, lines 121-131, and
\* blocks in recv; the foreign peer sends reply.
ForeignAccept(l, priv, reply) ==
    LET k  == links[l]
        n  == k.client
        th == k.thread
    IN  /\ k.csock = "handshake"
        /\ k.target = Foreign
        /\ \E i \in {InitiateKeyExchange(manager[n], TupleToSocket(GetPeerName(k)), priv)} :
            /\ links' = [links EXCEPT ![l] =
                   [k EXCEPT !.csock = "open", !.ssock = "open",
                             !.c2s = <<KeyPackageBytes(PInt(i.ret), Username(n))>>,
                             !.s2c = <<reply>>]]
            /\ manager' = [manager EXCEPT ![n] = i.m]
            /\ connecting' = [connecting EXCEPT ![n][th].pc = "dh_wait"]
        /\ UNCHANGED <<peers, connections, concount, accepting, returned, ncmds, unitVars>>

\* The foreign peer sends, on a connection whose handshake it completed, an
\* envelope for ChatMessage with the tag made under key.
ForeignSend(l, key) ==
    LET k == links[l]
    IN  /\ k.client = Foreign
        /\ k.csock = "open" /\ ~k.broken
        /\ k.rkey # PNone
        /\ k.c2s = <<>> /\ k.rx = NoRx
        /\ key \in {k.rkey.v, DeriveKey(0)}
        /\ links' = [links EXCEPT ![l].c2s =
               <<Utf8Encode(PackageMessage(key, ChatMessage).ret.v)>>]
        /\ UNCHANGED <<manager, peers, connections, concount, connecting, accepting,
                       returned, ncmds, unitVars>>

\* The foreign peer closes its socket.
ForeignClose(l) ==
    /\ links[l].client = Foreign
    /\ links[l].csock = "open"
    /\ links' = [links EXCEPT ![l].csock = "closed"]
    /\ UNCHANGED <<manager, peers, connections, concount, connecting, accepting,
                   returned, ncmds, unitVars>>

\* The transport of an established connection fails: every later sendall
\* and recv on it raises.
LinkBreaks(l) ==
    /\ links[l].csock = "open" /\ links[l].ssock = "open"
    /\ ~links[l].broken
    /\ Cardinality({x \in DOMAIN links : links[x].broken}) < MaxBreaks
    /\ links' = [links EXCEPT ![l].broken = TRUE]
    /\ UNCHANGED <<manager, peers, connections, concount, connecting, accepting,
                   returned, ncmds, unitVars>>

\* The nodes whose user types commands; the other nodes serve, and dial out
\* only on gossip.
Observed == {"A"}

Init ==
    /\ InitNetwork
    /\ DhIdle
    /\ HmacIdle
    /\ PeersIdle
    /\ ManagerIdle
    /\ RegistryIdle
    /\ ClientIdle

Next ==
    \/ \E n \in Observed : \E arg \in CommandTargets(n) : CmdConnect(n, arg)
    \/ \E l \in DOMAIN links : \E ok \in BOOLEAN : \E priv \in Drawn :
           TlsHandshake(l, ok, priv)
    \/ \E n \in Nodes : \E th \in Threads : ExchangeKeysReply(n, th)
    \/ \E n \in Nodes : \E th \in Threads : SendPeers(n, th)
    \/ \E m \in Nodes : \E priv \in Drawn : AcceptFirstPayload(m, priv)
    \/ \E m \in Nodes : HandlePeersNext(m)
    \/ \E m \in Nodes : HandlePeersAdd(m)
    \/ \E l \in DOMAIN links : HandlePeerRecv(l)
    \/ \E n \in Observed : CmdSendMsg(n)
    \/ \E n \in Observed : \E arg \in CommandTargets(n) : CmdDisconnect(n, arg)
    \/ \E m \in Nodes : \E payload \in ForeignFirstPayloads(m) : ForeignConnect(m, payload)
    \/ \E l \in DOMAIN links : \E priv \in Drawn : \E reply \in ForeignReplies :
           ForeignAccept(l, priv, reply)
    \/ \E l \in DOMAIN links : \E key \in SessionKeys : ForeignSend(l, key)
    \/ \E l \in DOMAIN links : ForeignClose(l)
    \/ \E l \in DOMAIN links : LinkBreaks(l)

Spec == Init /\ [][Next]_vars

\* C1: on every link over which both the initiator (_exchange_keys) and the
\* responder (_handle_key_exchange) completed the DH handshake, the session
\* key the initiator installed for the responder's address equals the one
\* the responder installed for the initiator's address.
C1_HandshakeAgreesOnKey ==
    \A l \in DOMAIN links :
        (links[l].ikey # PNone /\ links[l].rkey # PNone) =>
            links[l].ikey = links[l].rkey

\* C8: on a link whose DH handshake completed, when handle_peer has received
\* an envelope whose hmac does not verify under the link's session key, it
\* has logged the security event and has printed and logged nothing as
\* message content; and whatever it printed or logged as message content is
\* the message of an envelope that verified under that key.
C8_BadTagAlertsAndIsNotShown ==
    \A l \in DOMAIN links :
        (links[l].rkey # PNone /\ links[l].rx # NoRx) =>
            \E u \in {UnpackageMessage(links[l].rkey.v, links[l].rx.data)} :
                /\ (/\ ~NotAnEnvelope(links[l].rx.data)
                    /\ ~(u.exc = "None" /\ u.ret.v[2] = PBool(TRUE))) =>
                        /\ links[l].rx.alert
                        /\ links[l].rx.printed = PNone
                        /\ links[l].rx.logged = PNone
                /\ links[l].rx.printed # PNone =>
                        /\ u.exc = "None" /\ u.ret.v[2] = PBool(TRUE)
                        /\ links[l].rx.printed = u.ret.v[1]
                /\ links[l].rx.logged # PNone =>
                        /\ u.exc = "None" /\ u.ret.v[2] = PBool(TRUE)
                        /\ links[l].rx.logged = u.ret.v[1]

\* C9: once the handle_peer thread of a connection has left its receive
\* loop, the server socket of the connection is closed, and the address the
\* connection was accepted from is in neither peersdb nor peer_keys nor
\* peer_dh of the serving node.
C9_ReceiveLoopExitCleansUp ==
    \A l \in DOMAIN links :
        links[l].handler \in {"done", "died"} =>
            /\ links[l].ssock = "closed"
            /\ TupleToSocket(AcceptedAddr(l, links[l])) \notin peers[links[l].target]
            /\ TupleToSocket(AcceptedAddr(l, links[l]))
                   \notin DOMAIN manager[links[l].target].peer_keys
            /\ TupleToSocket(AcceptedAddr(l, links[l]))
                   \notin DOMAIN manager[links[l].target].peer_dh

\* C10: when disconnect(addr) returns on a node that had a connection to
\* addr in its set, the set holds no connection to addr, addr is in neither
\* peersdb nor peer_keys nor peer_dh of the node, and the socket of every
\* connection to addr that was in the set is closed.
C10_DisconnectCleansUp ==
    [][\A n \in Nodes :
        (/\ returned'[n] # returned[n]
         /\ returned'[n].op = "disconnect"
         /\ \E c \in connections[n] :
                GetPeerName(links[c]) = SocketToTuple(returned'[n].arg).ret) =>
            /\ \A c \in connections'[n] :
                   GetPeerName(links'[c]) # SocketToTuple(returned'[n].arg).ret
            /\ returned'[n].arg \notin peers'[n]
            /\ returned'[n].arg \notin DOMAIN manager'[n].peer_keys
            /\ returned'[n].arg \notin DOMAIN manager'[n].peer_dh
            /\ \A c \in connections[n] :
                   GetPeerName(links[c]) = SocketToTuple(returned'[n].arg).ret =>
                       links'[c].csock = "closed"]_vars

\* C11: when send_msg returns, every connection of the set whose send
\* failed (a session key was found and sendall raised) is out of the set
\* with its socket closed, its peer address is in neither peersdb nor
\* peer_keys nor peer_dh, and no new connection was opened.
C11_FailedSendTearsDown ==
    [][\A n \in Nodes :
        (returned'[n] # returned[n] /\ returned'[n].op = "send_msg") =>
            \A c \in connections[n] :
                (/\ links[c].broken
                 /\ HasSecureConnection(manager[n], TupleToSocket(GetPeerName(links[c])))) =>
                    /\ c \notin connections'[n]
                    /\ links'[c].csock = "closed"
                    /\ TupleToSocket(GetPeerName(links[c])) \notin peers'[n]
                    /\ TupleToSocket(GetPeerName(links[c])) \notin DOMAIN manager'[n].peer_keys
                    /\ TupleToSocket(GetPeerName(links[c])) \notin DOMAIN manager'[n].peer_dh
                    /\ Len(links') = Len(links)]_vars

\* C12: when the DH exchange of a connection fails, on the initiator
\* (connect returns out of the wait for the reply) or on the responder
\* (_handle_key_exchange installs no key for a key package), peer_keys and
\* peer_dh of that side hold no entry for the peer's address.
C12_FailedExchangeLeavesNoEntry ==
    [][/\ \A n \in Nodes : \A th \in Threads :
            (connecting[n][th].pc = "dh_wait" /\ connecting'[n][th].pc = "none") =>
                /\ TupleToSocket(GetPeerName(links[connecting[n][th].link]))
                       \notin DOMAIN manager'[n].peer_keys
                /\ TupleToSocket(GetPeerName(links[connecting[n][th].link]))
                       \notin DOMAIN manager'[n].peer_dh
       /\ \A m \in Nodes :
            (/\ accepting[m].pc = "first_recv"
             /\ accepting'[m].pc # "first_recv"
             /\ links'[accepting[m].link].rkey = PNone
             /\ FirstPayload(links[accepting[m].link]).do = "key_exchange") =>
                /\ TupleToSocket(AcceptedAddr(accepting[m].link, links[accepting[m].link]))
                       \notin DOMAIN manager'[m].peer_keys
                /\ TupleToSocket(AcceptedAddr(accepting[m].link, links[accepting[m].link]))
                       \notin DOMAIN manager'[m].peer_dh]_vars

\* C13: every connection in the set of a node has a session key:
\* get_security of its peer address is not None.
C13_ActiveConnectionHasKey ==
    \A n \in Nodes : \A c \in connections[n] :
        HasSecureConnection(manager[n], TupleToSocket(GetPeerName(links[c])))

\* C14: Server.start never leaves its accept loop.
C14_AcceptLoopSurvives ==
    \A m \in Nodes : Listening(m)

\* C15: a connection that waits to be accepted by a node is never kept
\* waiting by the silence of another peer: the accept thread of the node is
\* not blocked in the recv of a first payload that has not been sent.
C15_SilentPeerStallsNobody ==
    \A l \in DOMAIN links :
        (links[l].csock = "handshake" /\ links[l].target \in Nodes) =>
            ~(/\ accepting[links[l].target].pc = "first_recv"
              /\ links[accepting[links[l].target].link].c2s = <<>>
              /\ links[accepting[links[l].target].link].csock = "open"
              /\ ~links[accepting[links[l].target].link].broken)

\* Node m has nothing left to do until new input arrives: its accept thread
\* is in accept() (or gone), no thread is inside connect, and no handle_peer
\* thread has a payload to read.
Quiescent(m) ==
    /\ accepting[m].pc \in {"accept", "dead"}
    /\ \A th \in Threads : connecting[m][th].pc = "none"
    /\ \A l \in DOMAIN links :
           (links[l].target = m /\ links[l].handler = "running") => links[l].c2s = <<>>

\* C16: when Client.connect returns for a loopback address, it returns
\* through ClientException, and it has opened no socket and left the set of
\* connections, the connection counter, peersdb, peer_keys and peer_dh as
\* they were.
C16_LoopbackConnectChangesNothing ==
    [][\A n \in Nodes :
        (/\ returned'[n] # returned[n]
         /\ returned'[n].op = "connect"
         /\ SocketToTuple(returned'[n].arg).ret[1] \in {"127.0.0.1", "127.0.1.1"}) =>
            /\ returned'[n].result = "loopback"
            /\ UNCHANGED <<links, connections, concount, peers, manager>>]_vars

\* C16 witness: the connect of a command has returned for a loopback
\* address.
C16_Witness ==
    \E n \in Nodes :
        /\ returned[n].op = "connect"
        /\ SocketToTuple(returned[n].arg).ret[1] \in {"127.0.0.1", "127.0.1.1"}

\* C17: when a node has connected to another node, the gossip list has been
\* received there, the connection is still in the set and both nodes have
\* come to rest, the connecting node's peersdb holds the address of the
\* node it connected to and every peer that node knew when it accepted the
\* connection.
C17_BootstrapPeersLearned ==
    \A l \in DOMAIN links :
        (/\ links[l].client \in Nodes /\ links[l].target \in Nodes
         /\ links[l].rx # NoRx
         /\ l \in connections[links[l].client]
         /\ Quiescent(links[l].client) /\ Quiescent(links[l].target)) =>
            /\ ObterHostname(links[l].target) \in peers[links[l].client]
            /\ \A p \in links[l].known :
                   p # ObterHostname(links[l].client) => p \in peers[links[l].client]

\* C18: when a node has received the gossip list a connecting node sent
\* after the handshake and has come to rest, its peersdb holds the
\* connecting node's address, which heads the list, and every other address
\* of the list that is not its own.
C18_GossipListIsDialed ==
    \A l \in DOMAIN links :
        (/\ links[l].client \in Nodes /\ links[l].target \in Nodes
         /\ links[l].rx # NoRx
         /\ Quiescent(links[l].target)) =>
            /\ ObterHostname(links[l].client) \in peers[links[l].target]
            /\ \E toks \in {SplitWs(links[l].rx.data.v)} :
                   \A i \in DOMAIN toks :
                       (/\ SocketToTuple(toks[i]).exc = "None"
                        /\ toks[i] # ObterHostname(links[l].target)) =>
                            toks[i] \in peers[links[l].target]

(***************************************************************************)
(* peersdb.py: N threads calling the methods of one PeersDatabase, and a   *)
(* thread reading its peers attribute as client.py, server.py and          *)
(* salasdb.py do.                                                          *)
(***************************************************************************)
InitPeers ==
    /\ PeersIdle
    /\ ManagerIdle
    /\ RegistryIdle
    /\ ClientIdle
    /\ DhIdle
    /\ HmacIdle
    /\ InitNetwork

\* Thread t calls a method: it reaches the with statement.
Invoke(t, c) ==
    /\ calling[t].pc = "idle"
    /\ Len(history.calls) + Cardinality({u \in CallThreads : calling[u].pc # "idle"})
           < MaxCalls
    /\ calling' = [calling EXCEPT ![t] = Calling("acquire", c.op, c.arg, RetNone,
                                                 history.clock)]
    /\ history' = [history EXCEPT !.clock = @ + 1]
    /\ UNCHANGED <<db, reading, testVars, managerVars, clientVars, registryVars, protoVars>>

\* with self.__lock: __enter__
Acquire(t) ==
    /\ calling[t].pc = "acquire"
    /\ LockFree(db)
    /\ db' = [db EXCEPT !.locked = TRUE]
    /\ calling' = [calling EXCEPT ![t].pc = "body"]
    /\ UNCHANGED <<history, reading, testVars, managerVars, clientVars, registryVars, protoVars>>

\* The first statement of the with block.
Body(t) ==
    /\ calling[t].pc = "body"
    /\ IF calling[t].op = "remove"
       THEN /\ calling' = [calling EXCEPT ![t].pc =
                               IF RemoveTest(calling[t].arg, db.peers)
                               THEN "set_remove" ELSE "release"]
            /\ UNCHANGED db
       ELSE \E b \in {MethodBody(calling[t].op, calling[t].arg, db.peers)} :
                /\ db' = [db EXCEPT !.peers = b.peers]
                /\ calling' = [calling EXCEPT ![t].pc = "release", ![t].res = b.res]
    /\ UNCHANGED <<history, reading, testVars, managerVars, clientVars, registryVars, protoVars>>

\* remove, line 64: self.peers.remove(peer)
RemoveBody(t) ==
    /\ calling[t].pc = "set_remove"
    /\ \E b \in {SetRemove(calling[t].arg, db.peers)} :
           /\ db' = [db EXCEPT !.peers = b.peers]
           /\ calling' = [calling EXCEPT ![t].pc = "release", ![t].res = b.res]
    /\ UNCHANGED <<history, reading, testVars, managerVars, clientVars, registryVars, protoVars>>

\* with self.__lock: __exit__, and the method returns or raises.
Release(t) ==
    /\ calling[t].pc = "release"
    /\ db' = [db EXCEPT !.locked = FALSE]
    /\ history' = [calls |-> Append(history.calls,
                                    [t |-> t, op |-> calling[t].op, arg |-> calling[t].arg,
                                     res |-> calling[t].res, inv |-> calling[t].inv,
                                     ret |-> history.clock]),
                   clock |-> history.clock + 1]
    /\ calling' = [calling EXCEPT ![t] = NotCalling]
    /\ UNCHANGED <<reading, testVars, managerVars, clientVars, registryVars, protoVars>>

\* client.py line 102, peers_to_str(hostname, peersdb.peers): r = hostname
\* and the for statement creates the iterator of the set.
PeersToStrBegin ==
    /\ reading.pc \in {"idle", "done", "RuntimeError"}
    /\ reading.n < MaxReads
    /\ reading' = Reading("iter", "peers_to_str", Cardinality(db.peers), {},
                          <<"hostname">>, db.peers, db.locked, reading.n + 1)
    /\ UNCHANGED <<db, calling, history, testVars, managerVars, clientVars, registryVars, protoVars>>

\* utils.py lines 31-32: the iterator's next() raises RuntimeError when the
\* size of the set changed, else yields an element not yet yielded (in the
\* order of the hash table) or ends the loop.
PeersToStrNext ==
    /\ reading.pc = "iter"
    /\ IF Cardinality(db.peers) # reading.used
       THEN reading' = [reading EXCEPT !.pc = "RuntimeError",
                                       !.held = @ \/ db.locked]
       ELSE IF db.peers \ reading.seen = {}
            THEN reading' = [reading EXCEPT !.pc = "done", !.held = @ \/ db.locked]
            ELSE \E p \in db.peers \ reading.seen :
                     reading' = [reading EXCEPT !.seen = @ \cup {p},
                                                !.r = Append(@, p),
                                                !.held = @ \/ db.locked]
    /\ UNCHANGED <<db, calling, history, testVars, managerVars, clientVars, registryVars, protoVars>>

\* server.py line 135: p not in peersdb.peers
KnownPeerTest(p) ==
    /\ reading.pc \in {"idle", "done", "RuntimeError"}
    /\ reading.n < MaxReads
    /\ reading' = Reading("done", "_handle_peers", 0,
                          IF p \in db.peers THEN {p} ELSE {}, <<>>, db.peers,
                          db.locked, reading.n + 1)
    /\ UNCHANGED <<db, calling, history, testVars, managerVars, clientVars, registryVars, protoVars>>

\* salasdb.py line 215: list(peersdb.peers)
RoomEntryList ==
    /\ reading.pc \in {"idle", "done", "RuntimeError"}
    /\ reading.n < MaxReads
    /\ reading' = Reading("done", "entrar_sala", Cardinality(db.peers), db.peers, <<>>,
                          db.peers, db.locked, reading.n + 1)
    /\ UNCHANGED <<db, calling, history, testVars, managerVars, clientVars, registryVars, protoVars>>

NextPeers ==
    \/ \E t \in CallThreads : \E c \in MethodCalls : Invoke(t, c)
    \/ \E t \in CallThreads : Acquire(t)
    \/ \E t \in CallThreads : Body(t)
    \/ \E t \in CallThreads : RemoveBody(t)
    \/ \E t \in CallThreads : Release(t)
    \/ PeersToStrBegin
    \/ PeersToStrNext
    \/ \E p \in PeerAddrs : KnownPeerTest(p)
    \/ RoomEntryList

SpecPeers == InitPeers /\ [][NextPeers]_vars

\* The set object a returned reference designates now.
Deref(res) == IF res.ref = "live" THEN db.peers ELSE res.s

\* The value a call handed to its caller.
SameValue(a, b) == a.kind = b.kind /\ a.b = b.b /\ a.n = b.n /\ a.s = b.s

\* Whether the calls not in done can be run one after the other from the set
\* s, each one not before a call that had returned when it was invoked, so
\* that each gives the result recorded and the last leaves the set final.
RECURSIVE Linearizes(_, _, _, _)
Linearizes(calls, done, s, final) ==
    IF done = DOMAIN calls
    THEN s = final
    ELSE \E i \in DOMAIN calls \ done :
             /\ \A j \in DOMAIN calls \ done : calls[j].ret >= calls[i].inv
             /\ \E b \in {SerialCall(calls[i].op, calls[i].arg, s)} :
                    /\ SameValue(b.res, calls[i].res)
                    /\ Linearizes(calls, done \cup {i}, b.peers, final)

\* C19: whenever no call is in progress, the calls made so far by the N
\* threads have a serial order, consistent with the order of the calls that
\* did not overlap, in which every call returns what it returned and the
\* last leaves the set as it is; and the set every get_all returned still
\* holds what it held when it was returned.
C19_CallsLinearizable ==
    /\ (\A t \in CallThreads : calling[t].pc = "idle") =>
           Linearizes(history.calls, {}, NewPeersDatabase.peers, db.peers)
    /\ \A i \in DOMAIN history.calls :
           history.calls[i].op = "get_all" =>
               Deref(history.calls[i].res) = history.calls[i].res.s

\* C19, witness: an add and a remove of the same peer by two threads
\* overlapped, and a get_all returned a set that differs from the set now.
C19_Witness ==
    /\ \A t \in CallThreads : calling[t].pc = "idle"
    /\ \E i, j \in DOMAIN history.calls :
           /\ history.calls[i].t # history.calls[j].t
           /\ history.calls[i].op = "add" /\ history.calls[j].op = "remove"
           /\ history.calls[i].arg = history.calls[j].arg
           /\ history.calls[i].inv < history.calls[j].ret
           /\ history.calls[j].inv < history.calls[i].ret
    /\ \E k \in DOMAIN history.calls :
           /\ history.calls[k].op = "get_all"
           /\ history.calls[k].res.s # db.peers

\* C20: no read of the peer set outside the database's methods races with a
\* mutation: the set does not change while peers_to_str iterates it, the
\* iteration never ends in RuntimeError, and no read is made while a method
\* holds the lock.
C20_ReadsNeverRaceMutation ==
    /\ reading.pc # "RuntimeError"
    /\ reading.pc = "iter" => db.peers = reading.began
    /\ ~reading.held

\* C22: on every node, the set of active connections never holds two live
\* connections (client socket open, transport up) to the same peer address.
C22_OneConnectionPerPeer ==
    \A n \in Nodes : \A c1, c2 \in connections[n] :
        (/\ GetPeerName(links[c1]) = GetPeerName(links[c2])
         /\ links[c1].csock = "open" /\ links[c2].csock = "open"
         /\ ~links[c1].broken /\ ~links[c2].broken) => c1 = c2

\* C24: when Client.disconnect(addr) returns and the set of active
\* connections held no connection to addr when it was called, it raised
\* nothing and the connections, their sockets, the peer registry and the
\* session registry are what they were.
C24_DisconnectWithoutConnectionIsNoOp ==
    [][\A n \in Nodes :
          (/\ returned'[n] # returned[n]
           /\ returned'[n].op = "disconnect"
           /\ \A c \in connections[n] :
                  GetPeerName(links[c]) # SocketToTuple(returned'[n].arg).ret) =>
              /\ returned'[n].result = "not_found"
              /\ UNCHANGED <<links, connections, concount, peers, manager>>]_vars

\* C24, witness: disconnect has returned without having found a connection
\* to the address, which the peer registry and the session registry of the
\* node hold.
C24_Witness ==
    \E n \in Nodes :
        /\ returned[n].op = "disconnect"
        /\ returned[n].result = "not_found"
        /\ returned[n].arg \in peers[n]
        /\ returned[n].arg \in DOMAIN manager[n].peer_dh

\* A payload is an envelope for ChatMessage under key: a JSON object with the
\* fields msg and hmac and no other, which unpackage_message accepts under
\* that key as ChatMessage.
IsEnvelopeUnder(payload, key) ==
    /\ Utf8Decode(payload).ok
    /\ \E j \in {JsonLoads(Utf8Decode(payload).v)} :
           /\ j.exc = "None"
           /\ j.ret.t = "dict"
           /\ {j.ret.v[i][1] : i \in DOMAIN j.ret.v} = {MsgField, HmacField}
           /\ Len(j.ret.v) = 2
    /\ UnpackageMessage(key, PStr(Utf8Decode(payload).v))
           = Return(PTuple(<<ChatMessage, PBool(TRUE)>>))

\* C28: when Client.send_msg returns, every connection of the set whose peer
\* address has a session key registered and whose transport is up was sent
\* exactly one payload, the envelope of the message under that key; every
\* other connection, and every link outside the set, was sent nothing.
C28_SendMsgNeverPlaintext ==
    [][\A n \in Nodes :
          (returned'[n] # returned[n] /\ returned'[n].op = "send_msg") =>
              \A l \in DOMAIN links :
                  IF /\ l \in connections[n]
                     /\ ~links[l].broken
                     /\ HasSecureConnection(manager[n], TupleToSocket(GetPeerName(links[l])))
                  THEN /\ Len(links'[l].c2s) = Len(links[l].c2s) + 1
                       /\ SubSeq(links'[l].c2s, 1, Len(links[l].c2s)) = links[l].c2s
                       /\ IsEnvelopeUnder(
                              links'[l].c2s[Len(links'[l].c2s)],
                              GetSecurity(manager[n],
                                  TupleToSocket(GetPeerName(links[l]))).shared_key)
                  ELSE links'[l].c2s = links[l].c2s]_vars

\* C28, witness: send_msg has returned on a node with a connection whose
\* peer has a session key, which holds the envelope in flight, and an older
\* connection whose peer has none, which holds no payload but those of
\* connect (the key package and the peer list).
C28_Witness ==
    \E n \in Nodes :
        /\ returned[n].op = "send_msg"
        /\ \E c, d \in connections[n] :
               /\ d < c
               /\ HasSecureConnection(manager[n], TupleToSocket(GetPeerName(links[c])))
               /\ links[c].c2s # <<>>
               /\ IsEnvelopeUnder(
                      links[c].c2s[Len(links[c].c2s)],
                      GetSecurity(manager[n], TupleToSocket(GetPeerName(links[c]))).shared_key)
               /\ ~HasSecureConnection(manager[n], TupleToSocket(GetPeerName(links[d])))
               /\ Len(links[d].c2s) <= 2

\* C29: on every inbound connection over which _handle_key_exchange installed
\* a session key and handle_peer has received a payload, the lookup
\* handle_peer makes (line 160) gives the MessageSecurity registered for the
\* address of the connecting peer.
C29_ReceiveLoopFindsInstalledKey ==
    \A l \in DOMAIN links :
        (/\ links[l].target \in Nodes
         /\ links[l].rkey # PNone
         /\ links[l].rx # NoRx
         /\ HasSecureConnection(manager[links[l].target],
                                TupleToSocket(AcceptedAddr(l, links[l])))) =>
            GetSecurity(manager[links[l].target], SocketObject(l))
                = GetSecurity(manager[links[l].target],
                              TupleToSocket(AcceptedAddr(l, links[l])))

\* The payloads a step appended to a queue.
NewPayloads(old, new) ==
    IF Len(new) > Len(old) THEN {new[i] : i \in (Len(old) + 1) .. Len(new)} ELSE {}

\* Payload p, sent by the node with user name username and manager mgr to
\* peer_addr, discloses no key material: it holds no session key (the
\* SHA-256 block); when it is a key-exchange message it has the fields type,
\* public_key and username and no other, and its public_key is the public
\* value of the key pair the manager holds for peer_addr; any other payload
\* holds no number at all.
DisclosesNothing(p, username, mgr, peer_addr) ==
    /\ \A i \in DOMAIN p : p[i].c # "sha256"
    /\ \E j \in {IF Utf8Decode(p).ok THEN JsonLoads(Utf8Decode(p).v)
                 ELSE Raise("UnicodeDecodeError")} :
           IF /\ j.exc = "None"
              /\ j.ret.t = "dict"
              /\ DictHas(j.ret, TypeField)
              /\ DictGet(j.ret, TypeField) = DhKeyExchange
           THEN /\ Len(j.ret.v) = 3
                /\ {j.ret.v[i][1] : i \in DOMAIN j.ret.v}
                       = {TypeField, PublicKeyField, UsernameField}
                /\ DictGet(j.ret, UsernameField) = username
                /\ peer_addr \in DOMAIN mgr.peer_dh
                /\ DictGet(j.ret, PublicKeyField) = PInt(mgr.peer_dh[peer_addr].public_key)
                /\ mgr.peer_dh[peer_addr].public_key
                       = Pow(G, mgr.peer_dh[peer_addr].private_key, P)
           ELSE \A i \in DOMAIN p : \A x \in DOMAIN DigitChars : p[i].c # DigitChars[x]

\* C27: every payload a node hands to a socket, as initiator or as responder
\* of the connection, discloses no key material: no session key, and no
\* number other than the public value in the key-exchange message, which has
\* the fields type, public_key and username only.
C27_PayloadsDiscloseNoSecret ==
    [][\A l \in DOMAIN links' :
          /\ links'[l].client \in Nodes =>
                 \A p \in NewPayloads(IF l \in DOMAIN links THEN links[l].c2s ELSE <<>>,
                                      links'[l].c2s) :
                     DisclosesNothing(p, Username(links'[l].client),
                                      manager'[links'[l].client],
                                      TupleToSocket(GetPeerName(links'[l])))
          /\ links'[l].target \in Nodes =>
                 \A p \in NewPayloads(IF l \in DOMAIN links THEN links[l].s2c ELSE <<>>,
                                      links'[l].s2c) :
                     DisclosesNothing(p, Username(links'[l].target),
                                      manager'[links'[l].target],
                                      TupleToSocket(AcceptedAddr(l, links'[l])))]_vars

\* C27, witness: on a connection between two nodes the responder's
\* key-exchange message is in flight, and on a connection of the same run an
\* envelope or a peer list follows the initiator's key-exchange message.
C27_Witness ==
    /\ \E l \in DOMAIN links :
           /\ links[l].client \in Nodes /\ links[l].target \in Nodes
           /\ links[l].s2c # <<>>
           /\ links[l].rkey # PNone
    /\ \E l \in DOMAIN links :
           /\ links[l].client \in Nodes
           /\ Len(links[l].c2s) >= 2

(***************************************************************************)
(* security.py: several threads calling the methods of one                 *)
(* SecureConnectionManager, statement by statement.                        *)
(***************************************************************************)
InitManager ==
    /\ ManagerIdle
    /\ RegistryIdle
    /\ ClientIdle
    /\ PeersIdle
    /\ DhIdle
    /\ HmacIdle
    /\ InitNetwork

\* A finished call of a method of the manager: what it returned or raised
\* and when it was invoked and returned.
ManagerCall(t, method, c, res, pk, inv, ret) ==
    [t |-> t, method |-> method, arg |-> c.arg, pub |-> c.pub, priv |-> c.priv,
     res |-> res, pk |-> pk, inv |-> inv, ret |-> ret]

\* The method returns: the call joins the history.
Returned(t, method, res, pk) ==
    [calls |-> Append(mgr_history.calls,
                      ManagerCall(t, method, mgr_calling[t].c, res, pk,
                                  mgr_calling[t].inv, mgr_history.clock)),
     clock |-> mgr_history.clock + 1,
     n |-> mgr_history.n]

\* Thread t calls c.
ManagerInvoke(t, c) ==
    /\ mgr_calling[t].pc = "idle"
    /\ mgr_history.n < MaxManagerCalls
    /\ mgr_calling' = [mgr_calling EXCEPT ![t] =
           InManager(IF c.op = "remove_peer" THEN "pop_keys"
                     ELSE IF c.op = "complete_key_exchange" THEN "test" ELSE "store",
                     c,
                     IF c.op = "_handle_key_exchange" THEN "initiate_key_exchange" ELSE c.op,
                     mgr_history.clock, 0, 0, <<>>, FALSE, 0, 0, 0)]
    /\ mgr_history' = [mgr_history EXCEPT !.clock = @ + 1, !.n = @ + 1]
    /\ UNCHANGED <<secure_manager, handled, testVars, peersVars, clientVars, registryVars, protoVars>>

\* initiate_key_exchange, lines 141-143. In _handle_key_exchange the thread
\* goes on to call complete_key_exchange (line 117).
InitiateStore(t) ==
    LET w == mgr_calling[t]
        p == w.c.arg
    IN  /\ w.pc = "store"
        /\ secure_manager' = StoreNewDh(secure_manager, p, w.c.priv)
        /\ mgr_history' =
               [Returned(t, "initiate_key_exchange", "None",
                         NewDiffieHellman(w.c.priv).public_key)
                   EXCEPT !.clock = IF w.c.op = "_handle_key_exchange" THEN @ + 1 ELSE @]
        /\ mgr_calling' = [mgr_calling EXCEPT ![t] =
               IF w.c.op = "_handle_key_exchange"
               THEN InManager("test", w.c, "complete_key_exchange",
                              mgr_history.clock + 1, 0, 0, <<>>,
                              p \in DOMAIN secure_manager.ids,
                              IF p \in DOMAIN secure_manager.ids
                              THEN secure_manager.ids[p] ELSE 0,
                              secure_manager.next,
                              NewDiffieHellman(w.c.priv).public_key)
               ELSE NotInManager]
        /\ UNCHANGED <<handled, testVars, peersVars, clientVars, registryVars, protoVars>>

\* complete_key_exchange, line 150: if peer_addr not in self.peer_dh
CompleteTest(t) ==
    /\ mgr_calling[t].pc = "test"
    /\ mgr_calling' = [mgr_calling EXCEPT ![t].pc =
           IF mgr_calling[t].c.arg \in DOMAIN secure_manager.mgr.peer_dh
           THEN "fetch" ELSE "create"]
    /\ UNCHANGED <<secure_manager, mgr_history, handled, testVars, peersVars, clientVars, registryVars, protoVars>>

\* complete_key_exchange, lines 152-153.
CompleteCreate(t) ==
    /\ mgr_calling[t].pc = "create"
    /\ secure_manager' = StoreNewDh(secure_manager, mgr_calling[t].c.arg,
                                    mgr_calling[t].c.priv)
    /\ mgr_calling' = [mgr_calling EXCEPT ![t].pc = "fetch"]
    /\ UNCHANGED <<mgr_history, handled, testVars, peersVars, clientVars, registryVars, protoVars>>

\* complete_key_exchange, line 155: dh = self.peer_dh[peer_addr], a KeyError
\* when the entry is gone; _handle_key_exchange catches it and sends nothing.
CompleteFetch(t) ==
    LET w == mgr_calling[t]
        p == w.c.arg
    IN  /\ w.pc = "fetch"
        /\ IF p \in DOMAIN secure_manager.mgr.peer_dh
           THEN /\ mgr_calling' = [mgr_calling EXCEPT
                      ![t].pc = "compute",
                      ![t].ref = secure_manager.ids[p],
                      ![t].lpriv = secure_manager.mgr.peer_dh[p].private_key]
                /\ UNCHANGED <<mgr_history, handled>>
           ELSE /\ mgr_calling' = [mgr_calling EXCEPT ![t] = NotInManager]
                /\ mgr_history' = Returned(t, "complete_key_exchange", "KeyError", 0)
                /\ handled' = IF w.c.op = "_handle_key_exchange"
                              THEN Handled(FALSE, w.had, w.before, w.sentref, 0)
                              ELSE handled
        /\ UNCHANGED <<secure_manager, testVars, peersVars, clientVars, registryVars, protoVars>>

\* complete_key_exchange, line 156.
CompleteCompute(t) ==
    LET w == mgr_calling[t]
    IN  /\ w.pc = "compute"
        /\ secure_manager' = ComputeOnObject(secure_manager, w.c.arg, w.ref, w.c.pub)
        /\ mgr_calling' = [mgr_calling EXCEPT
               ![t].pc = "install",
               ![t].key = ComputeSharedSecret(NewDiffieHellman(w.lpriv), w.c.pub).key]
        /\ UNCHANGED <<mgr_history, handled, testVars, peersVars, clientVars, registryVars, protoVars>>

\* complete_key_exchange, line 159, and the return; _handle_key_exchange
\* then sends the response with my_public_key (lines 120-125).
CompleteInstall(t) ==
    LET w == mgr_calling[t]
    IN  /\ w.pc = "install"
        /\ secure_manager' = InstallKey(secure_manager, w.c.arg, w.key)
        /\ mgr_history' = Returned(t, "complete_key_exchange", "None", 0)
        /\ handled' = IF w.c.op = "_handle_key_exchange"
                      THEN Handled(TRUE, w.had, w.before, w.sentref, w.ref)
                      ELSE handled
        /\ mgr_calling' = [mgr_calling EXCEPT ![t] = NotInManager]
        /\ UNCHANGED <<testVars, peersVars, clientVars, registryVars, protoVars>>

\* remove_peer, line 171.
RemovePopKeys(t) ==
    /\ mgr_calling[t].pc = "pop_keys"
    /\ secure_manager' = PopKeys(secure_manager, mgr_calling[t].c.arg)
    /\ mgr_calling' = [mgr_calling EXCEPT ![t].pc = "pop_dh"]
    /\ UNCHANGED <<mgr_history, handled, testVars, peersVars, clientVars, registryVars, protoVars>>

\* remove_peer, line 172, and the return.
RemovePopDh(t) ==
    /\ mgr_calling[t].pc = "pop_dh"
    /\ secure_manager' = PopDh(secure_manager, mgr_calling[t].c.arg)
    /\ mgr_history' = Returned(t, "remove_peer", "None", 0)
    /\ mgr_calling' = [mgr_calling EXCEPT ![t] = NotInManager]
    /\ UNCHANGED <<handled, testVars, peersVars, clientVars, registryVars, protoVars>>

NextManager ==
    \/ \E t \in CallThreads : \E c \in ManagerCalls : ManagerInvoke(t, c)
    \/ \E t \in CallThreads : InitiateStore(t)
    \/ \E t \in CallThreads : CompleteTest(t)
    \/ \E t \in CallThreads : CompleteCreate(t)
    \/ \E t \in CallThreads : CompleteFetch(t)
    \/ \E t \in CallThreads : CompleteCompute(t)
    \/ \E t \in CallThreads : CompleteInstall(t)
    \/ \E t \in CallThreads : RemovePopKeys(t)
    \/ \E t \in CallThreads : RemovePopDh(t)

SpecManager == InitManager /\ [][NextManager]_vars

\* A method of the manager run with no other thread in between: the manager
\* afterwards, what it raised and the public key it returned.
SerialManagerCall(c, m) ==
    IF c.method = "initiate_key_exchange"
    THEN [m |-> InitiateKeyExchange(m, c.arg, c.priv).m, res |-> "None",
          pk |-> InitiateKeyExchange(m, c.arg, c.priv).ret]
    ELSE IF c.method = "complete_key_exchange"
    THEN [m |-> CompleteKeyExchange(m, c.arg, PInt(c.pub), c.priv).m,
          res |-> CompleteKeyExchange(m, c.arg, PInt(c.pub), c.priv).exc, pk |-> 0]
    ELSE [m |-> RemovePeer(m, c.arg), res |-> "None", pk |-> 0]

\* Whether the calls not in done can be run one after the other from the
\* manager m, each one not before a call that had returned when it was
\* invoked, so that each gives the result recorded and the last leaves the
\* manager final.
RECURSIVE ManagerLinearizes(_, _, _, _)
ManagerLinearizes(calls, done, m, final) ==
    IF done = DOMAIN calls
    THEN m = final
    ELSE \E i \in DOMAIN calls \ done :
             /\ \A j \in DOMAIN calls \ done : calls[j].ret >= calls[i].inv
             /\ \E b \in {SerialManagerCall(calls[i], m)} :
                    /\ b.res = calls[i].res
                    /\ b.pk = calls[i].pk
                    /\ ManagerLinearizes(calls, done \cup {i}, b.m, final)

\* C21: whenever no call is in progress, the calls of initiate_key_exchange,
\* complete_key_exchange and remove_peer made so far by the threads have a
\* serial order, consistent with the order of the calls that did not
\* overlap, in which every call returns or raises what it did and the last
\* leaves peer_keys and peer_dh as they are.
C21_ManagerCallsSerializable ==
    (\A t \in CallThreads : mgr_calling[t].pc = "idle") =>
        ManagerLinearizes(mgr_history.calls, {}, NewManager, secure_manager.mgr)

\* No two calls of the history overlapped.
Sequential(calls) ==
    \A i, j \in DOMAIN calls : i < j => calls[i].ret < calls[j].inv

\* C25: when the calls made so far on the manager did not overlap and the
\* last ones for a peer address p were initiate_key_exchange(p) and then
\* complete_key_exchange(p, pub), has_secure_connection(p) is True and
\* get_security(p) is the MessageSecurity of the key derived from pub and
\* the key pair initiate_key_exchange made; when the last one for p was
\* remove_peer(p), has_secure_connection(p) is False and get_security(p) is
\* None.
C25_ManagerLifecycle ==
    (/\ \A t \in CallThreads : mgr_calling[t].pc = "idle"
     /\ Sequential(mgr_history.calls)) =>
        \A j \in DOMAIN mgr_history.calls :
            (\A k \in DOMAIN mgr_history.calls :
                 (k > j) => mgr_history.calls[k].arg # mgr_history.calls[j].arg) =>
                /\ (/\ mgr_history.calls[j].method = "complete_key_exchange"
                    /\ j > 1
                    /\ mgr_history.calls[j - 1].method = "initiate_key_exchange"
                    /\ mgr_history.calls[j - 1].arg = mgr_history.calls[j].arg) =>
                       /\ HasSecureConnection(secure_manager.mgr, mgr_history.calls[j].arg)
                       /\ GetSecurity(secure_manager.mgr, mgr_history.calls[j].arg)
                              = MessageSecurity(DeriveKey(
                                    Pow(mgr_history.calls[j].pub,
                                        mgr_history.calls[j - 1].priv, P)))
                /\ mgr_history.calls[j].method = "remove_peer" =>
                       /\ ~HasSecureConnection(secure_manager.mgr, mgr_history.calls[j].arg)
                       /\ GetSecurity(secure_manager.mgr, mgr_history.calls[j].arg) = PNone

\* C25, witness: initiate_key_exchange, complete_key_exchange and remove_peer
\* were called for one peer, one after the other, as
\* test_secure_connection_manager does.
C25_Witness ==
    /\ \A t \in CallThreads : mgr_calling[t].pc = "idle"
    /\ Sequential(mgr_history.calls)
    /\ Len(mgr_history.calls) = 3
    /\ mgr_history.calls[1].method = "initiate_key_exchange"
    /\ mgr_history.calls[2].method = "complete_key_exchange"
    /\ mgr_history.calls[3].method = "remove_peer"
    /\ mgr_history.calls[1].arg = mgr_history.calls[2].arg
    /\ mgr_history.calls[2].arg = mgr_history.calls[3].arg

\* C30: when _handle_key_exchange has installed a session key and sent its
\* response, the key pair it used is the one peer_dh held for the peer when
\* it began, if there was one, and the public value it sent belongs to the
\* key pair from which the installed key was computed.
C30_ResponderKeepsExistingPair ==
    handled.done =>
        /\ handled.had => handled.usedref = handled.before
        /\ handled.sentref = handled.usedref
(***************************************************************************)
(* Client.send_msg and Client.disconnect called by several threads on one  *)
(* Client. Every statement that reads or writes the set, a socket or the   *)
(* manager is one step.                                                    *)
(***************************************************************************)
\* The peers of the connections: the Client is connected to both peers, to
\* one of them more than once (connect does not look for a connection it
\* already has). The first connection goes to the first peer.
ConnPeers ==
    {f \in [Conns -> PeerAddrs] :
        /\ f[1] = "10.0.0.2:5000"
        /\ \E c \in Conns : f[c] # f[1]}

\* list(self.__connections.connections): the elements in the order of the
\* hash table of the set, which removals do not change. The connections are
\* numbered in that order.
ListOfSet(S) ==
    CHOOSE o \in Orders(S) : \A i, j \in DOMAIN o : i < j => o[i] < o[j]

\* The Client holds MaxConns open connections and the manager has a key for
\* both peers or for one of them.
InitClient ==
    /\ conn_set = Conns
    /\ \E f \in ConnPeers :
           sockets = [c \in Conns |-> Socket(f[c], FALSE, FALSE)]
    /\ keyed \in {PeerAddrs} \cup {PeerAddrs \ {p} : p \in PeerAddrs}
    /\ sending = [t \in SendThreads |-> NotSending]
    /\ disconnecting = NotDisconnecting
    /\ ManagerIdle
    /\ RegistryIdle
    /\ PeersIdle
    /\ DhIdle
    /\ HmacIdle
    /\ InitNetwork

UnchangedOthers == UNCHANGED <<testVars, peersVars, managerVars, registryVars, protoVars>>

\* The peer of connection c drops it: sendall on c raises from now on.
PeerResets(c) ==
    /\ Cardinality({d \in Conns : sockets[d].reset}) < MaxResets
    /\ sockets' = [sockets EXCEPT ![c].reset = TRUE]
    /\ UNCHANGED <<conn_set, keyed, sending, disconnecting>>
    /\ UnchangedOthers

\* The mutant of SendMsgNext: the for statement iterates over the set itself,
\* whose iterator raises RuntimeError when the size of the set has changed.
SendMsgNextMutLive(w, live) ==
    IF Cardinality(live) # Len(w.snapshot)
    THEN [raised |-> TRUE, stop |-> FALSE, c |-> 0]
    ELSE IF w.i < Len(w.snapshot)
         THEN [raised |-> FALSE, stop |-> FALSE, c |-> w.snapshot[w.i + 1]]
         ELSE [raised |-> FALSE, stop |-> TRUE, c |-> 0]

\* Line 152, for c in <the list>: the next item of the list built when the
\* loop began, or the end of the loop. The set of the moment (live) plays no
\* part.
SendMsgNext(w, live) ==
    IF w.i < Len(w.snapshot)
    THEN [raised |-> FALSE, stop |-> FALSE, c |-> w.snapshot[w.i + 1]]
    ELSE [raised |-> FALSE, stop |-> TRUE, c |-> 0]

\* Line 152, list(self.__connections.connections). The threads being alike,
\* the second is the one that calls send_msg second.
SendMsgBegin(t) ==
    /\ sending[t].pc = "idle"
    /\ t = "s2" => sending["s1"].pc # "idle"
    /\ sending' = [sending EXCEPT ![t] =
           InSendMsg("for", ListOfSet(conn_set), 0, 0, @.attempts, @.outcome)]
    /\ UNCHANGED <<conn_set, sockets, keyed, disconnecting>>
    /\ UnchangedOthers

\* Line 152, the for statement takes its next item; an error raised here is
\* outside the try statement and leaves send_msg.
SendMsgFor(t) ==
    /\ sending[t].pc = "for"
    /\ \E r \in {SendMsgNext(sending[t], conn_set)} :
           sending' = [sending EXCEPT ![t] =
               IF r.raised THEN [@ EXCEPT !.pc = "raised"]
               ELSE IF r.stop THEN [@ EXCEPT !.pc = "returned"]
               ELSE [@ EXCEPT !.pc = "getpeername", !.i = @ + 1, !.c = r.c,
                              !.attempts[r.c] = @ + 1]]
    /\ UNCHANGED <<conn_set, sockets, keyed, disconnecting>>
    /\ UnchangedOthers

\* Line 155, c.getpeername(): OSError on a closed socket.
SendMsgGetPeerName(t) ==
    /\ sending[t].pc = "getpeername"
    /\ sending' = [sending EXCEPT ![t] =
           IF sockets[sending[t].c].closed
           THEN [@ EXCEPT !.pc = "except_remove", !.outcome[sending[t].c] = "getpeername_raised"]
           ELSE [@ EXCEPT !.pc = "get_security"]]
    /\ UNCHANGED <<conn_set, sockets, keyed, disconnecting>>
    /\ UnchangedOthers

\* Lines 158-166, secure_manager.get_security(peer_addr): without a key the
\* turn ends with the warning.
SendMsgGetSecurity(t) ==
    /\ sending[t].pc = "get_security"
    /\ sending' = [sending EXCEPT ![t] =
           IF sockets[sending[t].c].peer \in keyed
           THEN [@ EXCEPT !.pc = "sendall"]
           ELSE [@ EXCEPT !.pc = "for", !.outcome[sending[t].c] = "warned"]]
    /\ UNCHANGED <<conn_set, sockets, keyed, disconnecting>>
    /\ UnchangedOthers

\* Line 163, c.sendall(package): raises on a socket that is closed or that
\* the peer dropped.
SendMsgSendAll(t) ==
    /\ sending[t].pc = "sendall"
    /\ sending' = [sending EXCEPT ![t] =
           IF sockets[sending[t].c].closed \/ sockets[sending[t].c].reset
           THEN [@ EXCEPT !.pc = "except_remove", !.outcome[sending[t].c] = "sendall_raised"]
           ELSE [@ EXCEPT !.pc = "for", !.outcome[sending[t].c] = "sent"]]
    /\ UNCHANGED <<conn_set, sockets, keyed, disconnecting>>
    /\ UnchangedOthers

\* Lines 167-169, except Exception: self.__connections.remove(c), which
\* tests membership under the lock of Connections (lines 31-34).
SendMsgExceptRemove(t) ==
    /\ sending[t].pc = "except_remove"
    /\ conn_set' = conn_set \ {sending[t].c}
    /\ sending' = [sending EXCEPT ![t].pc = "except_close"]
    /\ UNCHANGED <<sockets, keyed, disconnecting>>
    /\ UnchangedOthers

\* Line 170, c.close(): closing a closed socket does nothing.
SendMsgExceptClose(t) ==
    /\ sending[t].pc = "except_close"
    /\ sockets' = [sockets EXCEPT ![sending[t].c].closed = TRUE]
    /\ sending' = [sending EXCEPT ![t].pc = "for"]
    /\ UNCHANGED <<conn_set, keyed, disconnecting>>
    /\ UnchangedOthers

\* Lines 188-189 of disconnect: addr = socket_to_tuple(addr_str) and the
\* list of the set.
DisconnectBegin(addr_str) ==
    /\ disconnecting.pc = "idle"
    /\ disconnecting' = InDisconnect("for", addr_str, ListOfSet(conn_set), 0, 0, 0)
    /\ UNCHANGED <<conn_set, sockets, keyed, sending>>
    /\ UnchangedOthers

\* Lines 189-191: the next conn and conn.getpeername() == addr; the OSError
\* of a closed socket is caught at line 199 and the loop goes on. After the
\* last conn disconnect prints that it found none (line 201).
DisconnectFor ==
    LET w == disconnecting
    IN  /\ w.pc = "for"
        /\ disconnecting' =
               IF w.i >= Len(w.snapshot) THEN [w EXCEPT !.pc = "returned"]
               ELSE IF /\ ~sockets[w.snapshot[w.i + 1]].closed
                       /\ sockets[w.snapshot[w.i + 1]].peer = w.addr_str
                    THEN [w EXCEPT !.pc = "sendall", !.i = @ + 1,
                                   !.conn = w.snapshot[w.i + 1]]
                    ELSE [w EXCEPT !.i = @ + 1]
        /\ UNCHANGED <<conn_set, sockets, keyed, sending>>
        /\ UnchangedOthers

\* Line 192, conn.sendall("__DISCONNECT__"): an error is caught at line 199
\* and the loop goes on with the next conn.
DisconnectSendAll ==
    LET w == disconnecting
    IN  /\ w.pc = "sendall"
        /\ disconnecting' =
               IF sockets[w.conn].closed \/ sockets[w.conn].reset
               THEN [w EXCEPT !.pc = "for"]
               ELSE [w EXCEPT !.pc = "close"]
        /\ UNCHANGED <<conn_set, sockets, keyed, sending>>
        /\ UnchangedOthers

\* Line 193, conn.close()
DisconnectClose ==
    /\ disconnecting.pc = "close"
    /\ sockets' = [sockets EXCEPT ![disconnecting.conn].closed = TRUE]
    /\ disconnecting' = [disconnecting EXCEPT !.pc = "remove", !.closed = disconnecting.conn]
    /\ UNCHANGED <<conn_set, keyed, sending>>
    /\ UnchangedOthers

\* Line 194, self.__connections.remove(conn)
DisconnectRemove ==
    /\ disconnecting.pc = "remove"
    /\ conn_set' = conn_set \ {disconnecting.conn}
    /\ disconnecting' = [disconnecting EXCEPT !.pc = "remove_peer"]
    /\ UNCHANGED <<sockets, keyed, sending>>
    /\ UnchangedOthers

\* Lines 195-198: peersdb.remove(addr_str), secure_manager.remove_peer(addr_str)
\* and return.
DisconnectRemovePeer ==
    /\ disconnecting.pc = "remove_peer"
    /\ keyed' = keyed \ {disconnecting.addr_str}
    /\ disconnecting' = [disconnecting EXCEPT !.pc = "returned"]
    /\ UNCHANGED <<conn_set, sockets, sending>>
    /\ UnchangedOthers

NextClient ==
    \/ \E c \in Conns : PeerResets(c)
    \/ \E t \in SendThreads : SendMsgBegin(t)
    \/ \E t \in SendThreads : SendMsgFor(t)
    \/ \E t \in SendThreads : SendMsgGetPeerName(t)
    \/ \E t \in SendThreads : SendMsgGetSecurity(t)
    \/ \E t \in SendThreads : SendMsgSendAll(t)
    \/ \E t \in SendThreads : SendMsgExceptRemove(t)
    \/ \E t \in SendThreads : SendMsgExceptClose(t)
    \/ \E a \in PeerAddrs : DisconnectBegin(a)
    \/ DisconnectFor
    \/ DisconnectSendAll
    \/ DisconnectClose
    \/ DisconnectRemove
    \/ DisconnectRemovePeer

SpecClient == InitClient /\ [][NextClient]_vars

\* The connections of a list.
Items(list) == {list[i] : i \in DOMAIN list}

\* C23: send_msg works on the list it built when it began. While other
\* threads remove or close connections (disconnect, or the error handling of
\* another send_msg), no error leaves send_msg, and when it returns the loop
\* has given exactly one turn to every connection that was in the set when
\* it began and none to any other; every such connection that nobody closed,
\* that its peer did not drop and whose peer still has a session key got
\* the message sent, once.
C23_SendMsgIteratesSnapshot ==
    \A t \in SendThreads :
        /\ sending[t].pc # "raised"
        /\ sending[t].pc = "returned" =>
               \A c \in Conns :
                   /\ sending[t].attempts[c] = (IF c \in Items(sending[t].snapshot) THEN 1 ELSE 0)
                   /\ (/\ c \in Items(sending[t].snapshot)
                       /\ ~sockets[c].closed
                       /\ ~sockets[c].reset
                       /\ sockets[c].peer \in keyed) => sending[t].outcome[c] = "sent"

\* C23: a send_msg returned that found a connection of its list closed by
\* the disconnect running at the same time, and sent the message on another
\* connection of the list that came after it.
C23_Witness ==
    \E t \in SendThreads : \E i, j \in DOMAIN sending[t].snapshot :
        /\ sending[t].pc = "returned"
        /\ i < j
        /\ disconnecting.closed = sending[t].snapshot[i]
        /\ sending[t].outcome[sending[t].snapshot[i]] = "getpeername_raised"
        /\ sending[t].outcome[sending[t].snapshot[j]] = "sent"

(***************************************************************************)
(* SecureConnectionManager used by one thread: every method call is one    *)
(* step.                                                                   *)
(***************************************************************************)
RegistryPeers == {"192.168.1.100:5001", "192.168.1.101:5001"}

\* What a caller passes as peer_public_key: the public value of a peer, or
\* what is no int (pow then raises TypeError).
RegistryPublicKeys == {PInt(Pow(G, x, P)) : x \in PrivateKeys} \cup {PNone}

InitRegistry ==
    /\ RegistryIdle
    /\ ManagerIdle
    /\ ClientIdle
    /\ PeersIdle
    /\ DhIdle
    /\ HmacIdle
    /\ InitNetwork

UnchangedButRegistry ==
    UNCHANGED <<testVars, peersVars, managerVars, clientVars, protoVars>>

\* secure_manager.initiate_key_exchange(peer_addr)
CallInitiateKeyExchange(peer_addr, priv) ==
    /\ registry' = InitiateKeyExchange(registry, peer_addr, priv).m
    /\ reg_call' = RegistryCall("initiate_key_exchange", peer_addr, "None", registry)
    /\ UnchangedButRegistry

\* secure_manager.complete_key_exchange(peer_addr, peer_public_key)
CallCompleteKeyExchange(peer_addr, peer_public_key, priv) ==
    /\ \E r \in {CompleteKeyExchange(registry, peer_addr, peer_public_key, priv)} :
           /\ registry' = r.m
           /\ reg_call' = RegistryCall("complete_key_exchange", peer_addr, r.exc, registry)
    /\ UnchangedButRegistry

\* secure_manager.remove_peer(peer_addr)
CallRemovePeer(peer_addr) ==
    /\ registry' = RemovePeer(registry, peer_addr)
    /\ reg_call' = RegistryCall("remove_peer", peer_addr, "None", registry)
    /\ UnchangedButRegistry

NextRegistry ==
    \/ \E p \in RegistryPeers : \E priv \in PrivateKeys : CallInitiateKeyExchange(p, priv)
    \/ \E p \in RegistryPeers : \E k \in RegistryPublicKeys : \E priv \in PrivateKeys :
           CallCompleteKeyExchange(p, k, priv)
    \/ \E p \in RegistryPeers : CallRemovePeer(p)

SpecRegistry == InitRegistry /\ [][NextRegistry]_vars

\* C34: in every state of a manager used by one thread, a peer address that
\* has a MessageSecurity in peer_keys has a DiffieHellman in peer_dh whose
\* shared secret was computed, and the key of the MessageSecurity is the one
\* derived from that shared secret.
C34_AuthenticatorMatchesKeyPair ==
    \A p \in DOMAIN registry.peer_keys :
        /\ p \in DOMAIN registry.peer_dh
        /\ registry.peer_dh[p].shared_secret # PNone
        /\ registry.peer_keys[p] =
               MessageSecurity(DeriveKey(registry.peer_dh[p].shared_secret.v))

\* C37: in every state reached by calls made one after the other, every
\* peer address with a MessageSecurity in peer_keys has a DiffieHellman in
\* peer_dh; and after remove_peer(p) neither dict has p, and the manager is
\* as it was before the call when neither had p.
C37_KeysHaveKeyPairsAndRemoveClears ==
    /\ DOMAIN registry.peer_keys \subseteq DOMAIN registry.peer_dh
    /\ reg_call.op = "remove_peer" =>
           /\ reg_call.peer_addr \notin DOMAIN registry.peer_keys
           /\ reg_call.peer_addr \notin DOMAIN registry.peer_dh
           /\ (/\ reg_call.peer_addr \notin DOMAIN reg_call.before.peer_keys
               /\ reg_call.peer_addr \notin DOMAIN reg_call.before.peer_dh) =>
                  registry = reg_call.before

\* C37, witness: remove_peer(p) was called when p had a key pair and a
\* MessageSecurity, and another peer still has both.
C37_Witness ==
    /\ reg_call.op = "remove_peer"
    /\ reg_call.peer_addr \in DOMAIN reg_call.before.peer_keys
    /\ reg_call.peer_addr \in DOMAIN reg_call.before.peer_dh
    /\ \E q \in DOMAIN registry.peer_keys : q \in DOMAIN registry.peer_dh

\* The entries of peer address q in the two dicts of manager m.
EntriesOf(m, q) ==
    [dh |-> IF q \in DOMAIN m.peer_dh THEN m.peer_dh[q] ELSE PNone,
     security |-> GetSecurity(m, q)]

\* C38: a call of initiate_key_exchange(p), complete_key_exchange(p, k) or
\* remove_peer(p), whether it returns or raises, leaves the key pair and
\* the MessageSecurity of every peer address other than p as they were.
C38_CallsIsolatedPerPeer ==
    reg_call.op # "none" =>
        \A q \in RegistryPeers \ {reg_call.peer_addr} :
            EntriesOf(registry, q) = EntriesOf(reg_call.before, q)

\* C38, witness: a call was made for a peer while another peer had a key
\* pair and a MessageSecurity, and the call changed the manager.
C38_Witness ==
    /\ reg_call.op # "none"
    /\ registry # reg_call.before
    /\ \E q \in RegistryPeers \ {reg_call.peer_addr} :
           /\ q \in DOMAIN registry.peer_keys
           /\ q \in DOMAIN registry.peer_dh

\* C31: while a Client.connect stands between update_connections and
\* send_peers (lines 101-102) on a connection, nothing is sent on that
\* connection: the peer list is the first payload sent on it after the key
\* exchange, before any chat envelope of a concurrent send_msg.
C31_GossipBeforeMessages ==
    [][\A n \in Nodes : \A th \in Threads :
           (/\ connecting[n][th].pc = "send_peers"
            /\ connecting'[n][th].pc = "send_peers") =>
               Len(links'[connecting[n][th].link].c2s)
                   <= Len(links[connecting[n][th].link].c2s)]_vars

\* C32: when a Client.connect that created its socket returns without having
\* sent the peer list, the socket is closed and the connection is not in
\* the set of the client.
C32_FailedConnectClosesSocket ==
    [][\A n \in Nodes : \A th \in Threads :
           (/\ connecting[n][th].pc \in {"handshake", "dh_wait", "send_peers"}
            /\ connecting'[n][th].pc = "none"
            /\ ~(/\ connecting[n][th].pc = "send_peers"
                 /\ ~links[connecting[n][th].link].broken)) =>
               /\ links'[connecting[n][th].link].csock = "closed"
               /\ connecting[n][th].link \notin connections'[n]]_vars

\* C35: when Server._handle_peers goes on after the connect it made for a
\* received address (line 139), the address is in peersdb only if it was
\* there already, put by the connect that succeeded (line 103).
C35_GossipAddressAddedOnSuccess ==
    [][\A m \in Nodes :
           (accepting[m].pc = "peers_connect" /\ accepting'[m].pc = "peers") =>
               (Head(accepting[m].todo) \in peers'[m] =>
                    Head(accepting[m].todo) \in peers[m])]_vars

\* C36: whenever no connect is in progress on a node, the counter the client
\* reports (the second component of Client.connections) is the number of
\* connections in its set.
C36_CountMatchesConnections ==
    \A n \in Nodes :
        (\A th \in Threads : connecting[n][th].pc = "none") =>
            concount[n] = Cardinality(connections[n])

\* The runs in which no user types /connect: the connections are those made
\* by the foreign peer and those the nodes make for the addresses of the peer
\* lists they receive.
NextInbound ==
    \/ \E l \in DOMAIN links : \E ok \in BOOLEAN : \E priv \in Drawn :
           TlsHandshake(l, ok, priv)
    \/ \E n \in Nodes : \E th \in Threads : ExchangeKeysReply(n, th)
    \/ \E n \in Nodes : \E th \in Threads : SendPeers(n, th)
    \/ \E m \in Nodes : \E priv \in Drawn : AcceptFirstPayload(m, priv)
    \/ \E m \in Nodes : HandlePeersNext(m)
    \/ \E m \in Nodes : HandlePeersAdd(m)
    \/ \E l \in DOMAIN links : HandlePeerRecv(l)
    \/ \E n \in Observed : CmdSendMsg(n)
    \/ \E n \in Observed : \E arg \in CommandTargets(n) : CmdDisconnect(n, arg)
    \/ \E m \in Nodes : \E payload \in ForeignFirstPayloads(m) : ForeignConnect(m, payload)
    \/ \E l \in DOMAIN links : \E priv \in Drawn : \E reply \in ForeignReplies :
           ForeignAccept(l, priv, reply)
    \/ \E l \in DOMAIN links : \E key \in SessionKeys : ForeignSend(l, key)
    \/ \E l \in DOMAIN links : ForeignClose(l)
    \/ \E l \in DOMAIN links : LinkBreaks(l)

\* Every handle_peer thread that can take a step eventually takes one: each
\* is a thread of its own (server.py line 94) and the interpreter runs the
\* threads in turn.
FairSpecInbound ==
    /\ Init
    /\ [][NextInbound]_vars
    /\ \A l \in 1 .. MaxLinks : WF_vars(l \in DOMAIN links /\ HandlePeerRecv(l))

\* The connection of link l has a handle_peer thread in its loop, and the
\* peer has sent the sentinel or closed its socket, or the transport failed.
MustTerminate(l) ==
    /\ l \in DOMAIN links
    /\ links[l].handler = "running"
    /\ \/ links[l].csock = "closed"
       \/ links[l].broken
       \/ \E i \in DOMAIN links[l].c2s : links[l].c2s[i] = Utf8Encode(DisconnectSentinel)

\* The handle_peer thread of link l has left its loop and ended.
Terminated(l) == l \in DOMAIN links /\ links[l].handler \in {"done", "died"}

\* C33: once the peer of an inbound connection with a running handle_peer
\* has sent the sentinel or closed its socket, or the transport has failed,
\* the loop of handle_peer is eventually left; and once it is left, what
\* was last displayed and logged for the connection never changes.
C33_ReceiveLoopTerminates ==
    /\ \A l \in 1 .. MaxLinks : MustTerminate(l) ~> Terminated(l)
    /\ [][\A l \in DOMAIN links : Terminated(l) => links'[l].rx = links[l].rx]_vars

\* C33, witness: a handle_peer that displayed a message has ended after the
\* peer sent the sentinel and closed its socket.
C33_Witness ==
    \E l \in DOMAIN links :
        /\ Terminated(l)
        /\ links[l].rx # NoRx
        /\ links[l].csock = "closed"
        /\ links[l].client \in Nodes

====
